---- MODULE Spec2Model ----
(***************************************************************************)
(* Parsons-problem tutor backend: the solution validators, the solution    *)
(* analysis, and the validate / feedback / chat request handlers with the  *)
(* remote text-generation call and its deterministic fallbacks.            *)
(*                                                                         *)
(* Text is modelled by TLA+ strings; str.strip, str.lstrip, str.split,     *)
(* the "in" substring test and the list comprehensions of the source are   *)
(* operators computed character by character.                              *)
(***************************************************************************)
EXTENDS Integers, Sequences, FiniteSets, TLC

\* ------------------------------------------------------------------ bounds
MaxSolLen == 2      \* longest submitted list of lines
MaxBlobLen == 2
MaxTurns == 11
MaxTalk == 3
MaxBack == 5     \* most lines of a problem's initial blob

\* ------------------------------------------------------- python primitives
None == "None"

IsSpace(c) == c \in {" ", "\t", "\n", "\r"}

RECURSIVE lstrip(_)
lstrip(s) == IF Len(s) > 0 /\ IsSpace(SubSeq(s, 1, 1))
             THEN lstrip(SubSeq(s, 2, Len(s))) ELSE s

RECURSIVE rstrip(_)
rstrip(s) == IF Len(s) > 0 /\ IsSpace(SubSeq(s, Len(s), Len(s)))
             THEN rstrip(SubSeq(s, 1, Len(s) - 1)) ELSE s

strip(s) == rstrip(lstrip(s))

\* needle in hay  (python substring test)
Contains(hay, needle) ==
    \E i \in 1..(Len(hay) - Len(needle) + 1) :
        SubSeq(hay, i, i + Len(needle) - 1) = needle

\* s.split('\n')
RECURSIVE SplitFrom(_, _, _)
SplitFrom(s, i, start) ==
    IF i > Len(s) THEN << SubSeq(s, start, Len(s)) >>
    ELSE IF SubSeq(s, i, i) = "\n"
         THEN << SubSeq(s, start, i - 1) >> \o SplitFrom(s, i + 1, i + 1)
         ELSE SplitFrom(s, i + 1, start)

split_lines(s) == SplitFrom(s, 1, 1)

\* "\n".join(lines)
RECURSIVE join_lines(_)
join_lines(lines) ==
    IF Len(lines) = 0 THEN ""
    ELSE IF Len(lines) = 1 THEN lines[1]
    ELSE lines[1] \o "\n" \o join_lines(Tail(lines))

\* [f(x) for x in seq]
Map(seq, f(_)) == [i \in 1..Len(seq) |-> f(seq[i])]

Min(a, b) == IF a < b THEN a ELSE b

\* len(line) - len(line.lstrip())
leading_whitespace(line) == Len(line) - Len(lstrip(line))

\* -------------------------------------------------------------- validators
IndentWidth == 4    \* one indentation level, in leading-whitespace characters

\* a marker test that keeps every line
KeepsEveryLine(line) == TRUE

NonBlank(line) == strip(line) /= ""
NotDistractor(line) == ~Contains(line, "#distractor")
IsSolutionLine(line) == NonBlank(line) /\ NotDistractor(line)

\* the lines of the blob that are neither blank nor distractors, unstripped
extract_correct_lines(initial) == SelectSeq(split_lines(initial), IsSolutionLine)

\* [line for line in user_solution if line.strip()]
clean_user_solution(user_solution) == SelectSeq(user_solution, NonBlank)

indent_level(line) == leading_whitespace(line) \div IndentWidth

\* first index (1-based) at which the stripped lines differ, 0 when none
FirstContentMismatch(xs, ys) ==
    LET bad == {i \in 1..Min(Len(xs), Len(ys)) : strip(xs[i]) /= strip(ys[i])}
    IN IF bad = {} THEN 0 ELSE CHOOSE i \in bad : \A j \in bad : i <= j

\* validate_solution without its length comparison: only the zipped prefix decides
validate_solution_zip_only(initial, user_solution) ==
    LET correct_lines == Map(extract_correct_lines(initial), strip)
        cleaned_user_solution == Map(clean_user_solution(user_solution), strip)
        n == Min(Len(cleaned_user_solution), Len(correct_lines))
        is_correct == \A i \in 1..n : cleaned_user_solution[i] = correct_lines[i]
    IN [isCorrect |-> is_correct,
        details |-> IF is_correct THEN "Solution is correct!"
                    ELSE "Solution does not match the expected output."]

\* solution_validator.validate_solution(problem_settings, user_solution)
validate_solution(initial, user_solution) ==
    LET correct_lines == Map(extract_correct_lines(initial), strip)
        cleaned_user_solution == Map(clean_user_solution(user_solution), strip)
        same_length == Len(cleaned_user_solution) = Len(correct_lines)
        is_correct == same_length
                      /\ FirstContentMismatch(cleaned_user_solution, correct_lines) = 0
    IN [isCorrect |-> is_correct,
        details |-> IF is_correct THEN "Solution is correct!"
                    ELSE "Solution does not match the expected output."]

\* SharedValidationService.check_indentation_consistency
check_indentation_consistency(correct_lines, user_solution) ==
    LET min_length == IF Len(user_solution) = 0 \/ Len(correct_lines) = 0 THEN 0
                      ELSE Min(Len(user_solution), Len(correct_lines))
        Differs(i) == /\ strip(user_solution[i]) = strip(correct_lines[i])
                      /\ leading_whitespace(user_solution[i])
                           /= leading_whitespace(correct_lines[i])
        idx == SelectSeq([i \in 1..min_length |-> i], Differs)
        Err(i) == [line_index |-> i - 1,
                   user_indent |-> leading_whitespace(user_solution[i]),
                   correct_indent |-> leading_whitespace(correct_lines[i]),
                   line_content |-> strip(user_solution[i])]
    IN [has_indentation_issues |-> Len(idx) > 0,
        indentation_errors |-> Map(idx, Err)]

\* SharedValidationService._basic_validation
basic_validation(initial, user_solution) ==
    LET correct_lines == Map(extract_correct_lines(initial), strip)
        user_lines == Map(clean_user_solution(user_solution), strip)
        is_correct == correct_lines = user_lines
        indentation_analysis == check_indentation_consistency(correct_lines, user_solution)
    IN [isCorrect |-> is_correct,
        solution_length |-> Len(user_lines),
        expected_length |-> Len(correct_lines),
        has_indentation_issues |-> indentation_analysis.has_indentation_issues,
        indentation_errors |-> indentation_analysis.indentation_errors]

\* a validator that compares the canonical lines with their indentation kept
validation_keeps_indentation(initial, solution) ==
    [isCorrect |-> extract_correct_lines(initial) = clean_user_solution(solution)]

\* ValidationEngineBridge._fallback_validation
fallback_validation(initial, solution) ==
    LET correct_lines == extract_correct_lines(initial)
        user_lines == Map(clean_user_solution(solution), strip)
        is_correct == /\ Len(correct_lines) = Len(user_lines)
                      /\ FirstContentMismatch(correct_lines, user_lines) = 0
        min_length == IF Len(correct_lines) = 0 \/ Len(solution) = 0 THEN 0
                      ELSE Min(Len(correct_lines), Len(solution))
        Differs(i) == /\ strip(solution[i]) /= ""
                      /\ strip(correct_lines[i]) /= ""
                      /\ strip(solution[i]) = strip(correct_lines[i])
                      /\ leading_whitespace(solution[i])
                           /= leading_whitespace(correct_lines[i])
        idx == SelectSeq([i \in 1..min_length |-> i], Differs)
        Err(i) == [lineIndex |-> i - 1,
                   currentIndent |-> leading_whitespace(solution[i]) \div IndentWidth,
                   expectedIndent |-> leading_whitespace(correct_lines[i]) \div IndentWidth,
                   line |-> strip(solution[i])]
    IN [isCorrect |-> is_correct,
        solution_length |-> Len(user_lines),
        expected_length |-> Len(correct_lines),
        has_indentation_issues |-> Len(idx) > 0,
        indentation_errors |-> Map(idx, Err)]

\* ------------------------------------------------------- solution analysis
UpperCase == "ABCDEFGHIJKLMNOPQRSTUVWXYZ"
LowerCase == "abcdefghijklmnopqrstuvwxyz"

\* str.lower on one character
ToLower == [c \in {SubSeq(UpperCase, i, i) : i \in 1..Len(UpperCase)} |->
               LET i == CHOOSE k \in 1..Len(UpperCase) : SubSeq(UpperCase, k, k) = c
               IN SubSeq(LowerCase, i, i)]

lower_char(c) == IF c \in DOMAIN ToLower THEN ToLower[c] ELSE c

RECURSIVE lower(_)
lower(s) == IF Len(s) = 0 THEN ""
            ELSE IF Len(s) = 1 THEN lower_char(s)
            ELSE lower(SubSeq(s, 1, Len(s) \div 2))
                   \o lower(SubSeq(s, Len(s) \div 2 + 1, Len(s)))

\* sep.join(parts)
RECURSIVE join(_, _)
join(sep, parts) ==
    IF Len(parts) = 0 THEN ""
    ELSE IF Len(parts) = 1 THEN parts[1]
    ELSE parts[1] \o sep \o join(sep, Tail(parts))

\* a keyword test that looks at the first keyword of a concept only
FirstIn(keywords, text) == Len(keywords) > 0 /\ Contains(text, keywords[1])

\* any(keyword in text for keyword in keywords)
AnyIn(keywords, text) == \E k \in 1..Len(keywords) : Contains(text, keywords[k])

\* the concepts dict, in insertion order
concepts ==
    << [name |-> "functions",    keywords |-> << "def ", "return" >>],
       [name |-> "loops",        keywords |-> << "for ", "while " >>],
       [name |-> "conditionals", keywords |-> << "if ", "else", "elif" >>],
       [name |-> "variables",    keywords |-> << "=" >>],
       [name |-> "output",       keywords |-> << "print(" >>],
       [name |-> "input",        keywords |-> << "input(" >>],
       [name |-> "lists",        keywords |-> << "[", "]", ".append", ".extend" >>],
       [name |-> "strings",      keywords |-> << "'", "\"", ".format", "f'" >>] >>

ConceptName(c) == c.name

\* correct_indent_map.get(content): the level of the last canonical line with
\* this stripped content, NoIndent (python None) when there is none
NoIndent == -1

expected_indent(correct_lines, content) ==
    LET hits == {j \in 1..Len(correct_lines) : strip(correct_lines[j]) = content}
    IN IF hits = {} THEN NoIndent
       ELSE indent_level(correct_lines[CHOOSE j \in hits : \A k \in hits : k <= j])

\* SharedValidationService.analyze_programming_concepts: the same table applied
\* to the lines as they are given
analyze_programming_concepts(user_solution, correct_lines) ==
    LET solution_text == lower(join(" ", user_solution))
        correct_text == lower(join(" ", correct_lines))
        has_in_correct(c) == AnyIn(c.keywords, correct_text)
        has_in_user(c) == AnyIn(c.keywords, solution_text)
        Correct(c) == has_in_correct(c) /\ has_in_user(c)
        Missing(c) == has_in_correct(c) /\ ~has_in_user(c)
    IN [missing_concepts |-> Map(SelectSeq(concepts, Missing), ConceptName),
        correct_concepts |-> Map(SelectSeq(concepts, Correct), ConceptName)]

\* feedback_generator.analyze_solution_state_enhanced (solution_context is read
\* for a first has_indentation_issues value that line 239 then overwrites)
analyze_solution_state_enhanced(initial, user_solution, solution_context) ==
    LET correct_lines == extract_correct_lines(initial)
        cleaned_user_solution == clean_user_solution(user_solution)
        solution_length == Len(cleaned_user_solution)
        expected_length == Len(correct_lines)
        has_indentation_issues ==
            \E i \in 1..Len(user_solution) :
                /\ strip(user_solution[i]) /= ""
                /\ expected_indent(correct_lines, strip(user_solution[i])) /= NoIndent
                /\ indent_level(user_solution[i])
                     /= expected_indent(correct_lines, strip(user_solution[i]))
        solution_text == lower(join(" ", cleaned_user_solution))
        correct_text == lower(join(" ", correct_lines))
        InBoth(c) == AnyIn(c.keywords, solution_text) /\ AnyIn(c.keywords, correct_text)
        OnlyCorrect(c) == AnyIn(c.keywords, correct_text) /\ ~AnyIn(c.keywords, solution_text)
        correct_concepts == Map(SelectSeq(concepts, InBoth), ConceptName)
        missing_concepts == Map(SelectSeq(concepts, OnlyCorrect), ConceptName)
        length_error ==
            IF solution_length < expected_length THEN << "incomplete_solution" >>
            ELSE IF solution_length > expected_length THEN << "extra_blocks" >>
            ELSE << >>
        length_issue ==
            IF solution_length < expected_length
            THEN << "Missing " \o ToString(expected_length - solution_length)
                       \o " code block(s)" >>
            ELSE IF solution_length > expected_length
            THEN << "Has " \o ToString(solution_length - expected_length)
                       \o " extra code block(s)" >>
            ELSE << >>
    IN [has_solution |-> solution_length > 0,
        solution_length |-> solution_length,
        expected_length |-> expected_length,
        is_complete |-> solution_length >= expected_length,
        has_indentation_issues |-> has_indentation_issues,
        missing_concepts |-> missing_concepts,
        correct_concepts |-> correct_concepts,
        error_types |->
            length_error
            \o (IF has_indentation_issues THEN << "indentation_error" >> ELSE << >>)
            \o (IF Len(missing_concepts) > 0 THEN << "missing_concepts" >> ELSE << >>),
        specific_issues |->
            length_issue
            \o (IF has_indentation_issues THEN << "Indentation needs attention" >> ELSE << >>)
            \o (IF Len(missing_concepts) > 0
                THEN << "Missing: " \o join(", ", missing_concepts) >> ELSE << >>)]

\* ------------------------------------------------- conversation context
\* chat_history entries are [role, content] (id and timestamp are never read)
\* the topic_keywords dict of extract_topics_discussed
topic_keywords ==
    << [name |-> "indentation",  keywords |-> << "indent", "indentation", "spacing", "tab", "space" >>],
       [name |-> "functions",    keywords |-> << "function", "def", "return", "parameter", "argument" >>],
       [name |-> "loops",        keywords |-> << "loop", "for", "while", "iteration", "repeat" >>],
       [name |-> "conditionals", keywords |-> << "if", "else", "condition", "conditional", "elif" >>],
       [name |-> "variables",    keywords |-> << "variable", "assignment", "value", "assign" >>],
       [name |-> "order",        keywords |-> << "order", "sequence", "first", "second", "before", "after" >>],
       [name |-> "logic",        keywords |-> << "logic", "logical", "flow", "program flow", "algorithm" >>],
       [name |-> "syntax",       keywords |-> << "syntax", "grammar", "format", "structure" >>],
       [name |-> "debugging",    keywords |-> << "error", "bug", "wrong", "mistake", "problem", "issue" >>] >>

\* extract_topics_discussed, as the set the source builds
extract_topics_discussed(chat_history) ==
    {topic_keywords[t].name : t \in
        {t \in 1..Len(topic_keywords) :
            \E m \in 1..Len(chat_history) :
                AnyIn(topic_keywords[t].keywords, lower(chat_history[m].content))}}

IsTutor(msg) == msg.role = "tutor"

\* analyze_last_tutor_approach
analyze_last_tutor_approach(chat_history) ==
    LET tutor_messages == SelectSeq(chat_history, IsTutor)
        last_message == lower(tutor_messages[Len(tutor_messages)].content)
    IN IF Len(tutor_messages) = 0 THEN None
       ELSE IF Contains(last_message, "?")
            THEN IF AnyIn(<< "what", "which", "where" >>, last_message) THEN "factual_question"
                 ELSE IF AnyIn(<< "how", "why" >>, last_message) THEN "analytical_question"
                 ELSE IF Contains(last_message, "think") THEN "reflective_question"
                 ELSE "general_question"
       ELSE IF AnyIn(<< "let me explain", "here's how", "the reason" >>, last_message)
            THEN "explanation"
       ELSE IF AnyIn(<< "try", "can you", "let's" >>, last_message) THEN "guidance"
       ELSE "supportive"

\* a stage rule that never leaves the first stage
stage_always_initial(chat_history) == "initial"

determine_conversation_stage(chat_history) ==
    LET message_count == Len(chat_history)
    IN IF message_count <= 2 THEN "initial"
       ELSE IF message_count <= 6 THEN "exploration"
       ELSE IF message_count <= 10 THEN "guided_analysis"
       ELSE "deep_engagement"

\* last n entries of a list: seq[-n:]
LastN(seq, n) == SubSeq(seq, IF Len(seq) > n THEN Len(seq) - n + 1 ELSE 1, Len(seq))

IsStudent(msg) == msg.role = "student"

\* the understanding_indicators dict, in insertion order and as written
understanding_indicators ==
    << [name |-> "confused",
        keywords |-> << "confused", "don't understand", "don't get", "lost", "stuck" >>],
       [name |-> "partial",
        keywords |-> << "I think", "maybe", "not sure", "kind of", "sort of" >>],
       [name |-> "understanding",
        keywords |-> << "I see", "that makes sense", "I understand", "got it", "okay" >>],
       [name |-> "confident",
        keywords |-> << "yes", "definitely", "I know", "correct", "right" >>] >>

UnderstandingWindow == 3   \* student messages the estimate looks back at

\* assess_student_understanding: max(scores, key=scores.get) is the first level,
\* in dict order, that has the highest score
assess_student_understanding(chat_history) ==
    LET student_messages == SelectSeq(chat_history, IsStudent)
        recent_messages == LastN(student_messages, UnderstandingWindow)
        score(l) == Cardinality({m \in 1..Len(recent_messages) :
                        AnyIn(understanding_indicators[l].keywords,
                              lower(recent_messages[m].content))})
        levels == 1..Len(understanding_indicators)
    IN IF Len(student_messages) = 0 THEN "unknown"
       ELSE IF \A l \in levels : score(l) = 0 THEN "unknown"
       ELSE understanding_indicators[
                CHOOSE l \in levels :
                    /\ \A k \in levels : score(k) <= score(l)
                    /\ \A k \in 1..(l - 1) : score(k) < score(l)].name

\* a progression rule that tests the guidance row before the analytical row
teaching_progression_guidance_first(chat_history) ==
    LET topics == extract_topics_discussed(chat_history)
        understanding == assess_student_understanding(chat_history)
        stage == determine_conversation_stage(chat_history)
    IN IF stage = "initial" THEN "diagnostic"
       ELSE IF understanding = "confused" /\ Cardinality(topics) < 2 THEN "diagnostic"
       ELSE IF understanding = "understanding" /\ Cardinality(topics) >= 2 THEN "guidance"
       ELSE IF understanding \in {"partial", "understanding"} /\ Cardinality(topics) >= 1
       THEN "analytical"
       ELSE "diagnostic"

determine_teaching_progression(chat_history) ==
    LET topics == extract_topics_discussed(chat_history)
        understanding == assess_student_understanding(chat_history)
        stage == determine_conversation_stage(chat_history)
    IN IF stage = "initial" THEN "diagnostic"
       ELSE IF understanding = "confused" /\ Cardinality(topics) < 2 THEN "diagnostic"
       ELSE IF understanding \in {"partial", "understanding"} /\ Cardinality(topics) >= 1
       THEN "analytical"
       ELSE IF understanding = "understanding" /\ Cardinality(topics) >= 2 THEN "guidance"
       ELSE "diagnostic"

\* the fields of build_conversation_context_enhanced that the reply and the
\* strategy depend on
build_conversation_context_enhanced(chat_history) ==
    IF Len(chat_history) = 0
    THEN [conversation_stage |-> "initial",
          topics_discussed |-> {},
          student_understanding |-> "unknown",
          teaching_progression |-> "diagnostic",
          last_tutor_approach |-> None]
    ELSE [conversation_stage |-> determine_conversation_stage(chat_history),
          topics_discussed |-> extract_topics_discussed(chat_history),
          student_understanding |-> assess_student_understanding(chat_history),
          teaching_progression |-> determine_teaching_progression(chat_history),
          last_tutor_approach |-> analyze_last_tutor_approach(chat_history)]

\* ------------------------------------------------------- message analysis
\* the intent_patterns dict of determine_message_intent, in insertion order
intent_patterns ==
    << [name |-> "seeking_help",
        keywords |-> << "help", "stuck", "don't know", "confused", "lost" >>],
       [name |-> "asking_clarification",
        keywords |-> << "what do you mean", "can you explain", "i don't understand" >>],
       [name |-> "proposing_solution",
        keywords |-> << "i think", "should i", "what if", "maybe" >>],
       [name |-> "confirming_understanding",
        keywords |-> << "so", "is this right", "does this mean" >>],
       [name |-> "expressing_frustration",
        keywords |-> << "this is hard", "i can't", "this doesn't work" >>],
       [name |-> "asking_specific_question",
        keywords |-> << "how do", "why does", "what does", "where should" >>] >>

\* the emotional_indicators dict of assess_emotional_state, in insertion order
emotional_indicators ==
    << [name |-> "frustrated",
        keywords |-> << "frustrated", "annoying", "difficult", "hard", "can't do" >>],
       [name |-> "confused",
        keywords |-> << "confused", "lost", "don't understand", "don't get" >>],
       [name |-> "curious",
        keywords |-> << "interesting", "why", "how", "what if", "curious" >>],
       [name |-> "confident",
        keywords |-> << "i think i know", "i believe", "i'm sure", "definitely" >>],
       [name |-> "neutral",
        keywords |-> << "okay", "fine", "sure", "yes", "no" >>] >>

\* a bucket search that returns the last matching bucket
last_bucket(buckets, text, default) ==
    LET hits == {b \in 1..Len(buckets) : AnyIn(buckets[b].keywords, text)}
    IN IF hits = {} THEN default
       ELSE buckets[CHOOSE b \in hits : \A c \in hits : c <= b].name

\* for name, patterns in buckets.items(): if any(...): return name; return default
first_bucket(buckets, text, default) ==
    LET hits == {b \in 1..Len(buckets) : AnyIn(buckets[b].keywords, text)}
    IN IF hits = {} THEN default
       ELSE buckets[CHOOSE b \in hits : \A c \in hits : b <= c].name

determine_message_intent(message_lower) ==
    first_bucket(intent_patterns, message_lower, "general_inquiry")

assess_emotional_state(message_lower) ==
    first_bucket(emotional_indicators, message_lower, "neutral")

\* the fields of analyze_student_message that the strategy depends on
analyze_student_message(current_message, solution_analysis) ==
    [intent |-> determine_message_intent(lower(current_message)),
     emotional_state |-> assess_emotional_state(lower(current_message))]

\* a selector that tests the help rule before the frustration rule
response_strategy_help_first(conversation_context, solution_analysis, message_analysis) ==
    IF /\ message_analysis.intent = "seeking_help"
       /\ conversation_context.student_understanding = "confused"
    THEN "diagnostic_scaffolding"
    ELSE IF message_analysis.emotional_state = "frustrated" THEN "supportive_simplification"
    ELSE "adaptive_response"

\* determine_response_strategy: the approach of the strategy it returns
determine_response_strategy(conversation_context, solution_analysis, message_analysis) ==
    LET progression == conversation_context.teaching_progression
        understanding == conversation_context.student_understanding
        emotional_state == message_analysis.emotional_state
        intent == message_analysis.intent
    IN IF emotional_state = "frustrated" THEN "supportive_simplification"
       ELSE IF intent = "seeking_help" /\ understanding = "confused"
       THEN "diagnostic_scaffolding"
       ELSE IF progression = "diagnostic" /\ solution_analysis.solution_length = 0
       THEN "initial_exploration"
       ELSE IF progression = "analytical" /\ Len(solution_analysis.error_types) > 0
       THEN "error_analysis"
       ELSE IF understanding = "understanding" /\ progression = "guidance"
       THEN "solution_refinement"
       ELSE "adaptive_response"

\* generate_chat_response from the conversation context it has built to the
\* strategy that create_chat_prompt_enhanced writes into the prompt
chat_prompt_strategy(initial, user_solution, conversation_context, current_message) ==
    LET solution_analysis == analyze_solution_state_enhanced(initial, user_solution, None)
        message_analysis == analyze_student_message(current_message, solution_analysis)
    IN [conversation_context |-> conversation_context,
        message_analysis |-> message_analysis,
        solution_length |-> solution_analysis.solution_length,
        error_types |-> solution_analysis.error_types,
        teaching_strategy |-> determine_response_strategy(
                                  conversation_context, solution_analysis, message_analysis)]

\* ------------------------------------------------------- post-processing
MaxResponseLength == 600   \* longer remote replies are cut to their first sentences
MinResponseLength == 30    \* shorter replies get a follow-up question
KeptSentences == 4

IsSentenceEnd(c) == c \in {".", "!", "?"}

\* s.find(c): 0-based index of the first c, -1 when absent
find(s, c) ==
    LET hits == {i \in 1..Len(s) : SubSeq(s, i, i) = c}
    IN IF hits = {} THEN -1 ELSE (CHOOSE i \in hits : \A j \in hits : i <= j) - 1

\* s.rfind(c, 0, end): 0-based index of the last c below end, -1 when absent
rfind(s, c, end) ==
    LET hits == {i \in 1..Min(end, Len(s)) : SubSeq(s, i, i) = c}
    IN IF hits = {} THEN -1 ELSE (CHOOSE i \in hits : \A j \in hits : j <= i) - 1

\* s.count(c)
count(s, c) == Cardinality({i \in 1..Len(s) : SubSeq(s, i, i) = c})

\* re.split(r'[.!?]', s)[:n]
RECURSIVE SplitSentences(_, _, _)
SplitSentences(s, start, n) ==
    LET ends == {i \in start..Len(s) : IsSentenceEnd(SubSeq(s, i, i))}
    IN IF n = 0 THEN << >>
       ELSE IF ends = {} THEN << SubSeq(s, start, Len(s)) >>
       ELSE LET e == CHOOSE i \in ends : \A j \in ends : i <= j
            IN << SubSeq(s, start, e - 1) >> \o SplitSentences(s, e + 1, n - 1)

\* dict.get(key, default) on a record
Get(dict, key, default) == IF key \in DOMAIN dict THEN dict[key] ELSE default

\* post-processing that hands the remote reply on as it came
post_process_unchanged(ai_response, student_message, conversation_context, solution_analysis) ==
    ai_response

\* feedback_generator.post_process_chat_response_enhanced
post_process_chat_response_enhanced(ai_response, student_message, conversation_context, solution_analysis) ==
    LET stripped == strip(ai_response)
        cut == IF Len(stripped) > MaxResponseLength
               THEN strip(join(". ", SplitSentences(stripped, 1, KeptSentences))) \o "."
               ELSE stripped
        punctuated == IF Len(cut) > 0 /\ ~IsSentenceEnd(SubSeq(cut, Len(cut), Len(cut)))
                      THEN cut \o "." ELSE cut
        question_start == find(punctuated, "?")
        cut_at == rfind(punctuated, ".", question_start) + 1
        question == strip(SubSeq(punctuated, cut_at + 1, question_start + 1))
        explanation == strip(SubSeq(punctuated, 1, cut_at))
        varied ==
            IF /\ conversation_context.last_tutor_approach = "factual_question"
               /\ count(punctuated, "?") > 0
               /\ AnyIn(<< "what", "which" >>, lower(punctuated))
               /\ Cardinality(conversation_context.topics_discussed) > 2
               /\ question_start > 0
               /\ explanation /= ""
            THEN explanation \o " Let me help you think through this. " \o question
            ELSE punctuated
        emotional_state == Get(solution_analysis, "emotional_state", "neutral")
        toned ==
            IF /\ emotional_state = "frustrated"
               /\ ~AnyIn(<< "understand", "okay", "let's", "together" >>, lower(varied))
            THEN "I understand this can be challenging. " \o varied
            ELSE IF /\ emotional_state = "confident"
                    /\ ~AnyIn(<< "great", "good", "excellent", "right" >>, lower(varied))
            THEN "You're on the right track! " \o varied
            ELSE varied
    IN IF \/ Len(toned) < MinResponseLength
          \/ lower(toned) \in {"yes.", "no.", "ok.", "sure.", "that's right."}
       THEN IF Get(solution_analysis, "has_solution", FALSE)
            THEN toned \o " Looking at your current solution, what do you think about the logical flow of the steps?"
            ELSE toned \o " What's your first thought about how to approach this problem?"
       ELSE toned

\* ------------------------------------------------------ fallback responders
RecentWindow == 4   \* transcript entries the chat fallback looks back at

\* topics_discussed of generate_chat_fallback_enhanced
fallback_topics(chat_history) ==
    LET recent == LastN(chat_history, RecentWindow)
        Mentions(words) == \E m \in 1..Len(recent) : AnyIn(words, lower(recent[m].content))
    IN (IF Mentions(<< "indent" >>) THEN {"indentation"} ELSE {})
       \cup (IF Mentions(<< "order", "sequence", "first" >>) THEN {"order"} ELSE {})
       \cup (IF Mentions(<< "function", "def" >>) THEN {"functions"} ELSE {})

\* feedback_generator.generate_chat_fallback_enhanced: the replies it can give.
\* One branch renders list(topics_discussed)[:2]; a set's iteration order is not
\* fixed by the inputs, so every ordered pair of distinct topics is possible.
generate_chat_fallback_enhanced(current_message, user_solution, chat_history) ==
    LET message_lower == lower(current_message)
        topics_discussed == fallback_topics(chat_history)
    IN IF Contains(message_lower, "indent")
       THEN IF "indentation" \in topics_discussed
            THEN {"We've talked about indentation before. Remember, Python uses indentation to show which lines belong together - like how you indent paragraphs in an essay. Looking at your current blocks, which ones do you think should be grouped together?"}
            ELSE {"Indentation in Python is like organizing your thoughts in an outline. Lines that belong to the same 'group' (like inside a function or if statement) should be indented the same amount. What do you notice about the structure of your code blocks?"}
       ELSE IF AnyIn(<< "order", "sequence", "first", "next" >>, message_lower)
       THEN IF "order" \in topics_discussed
            THEN {"You're continuing to think about the logical order - that's exactly right! Think about this like giving directions to a friend. What would need to happen before the step you're looking at can work?"}
            ELSE {"Great question about order! Programming is like writing a recipe - some steps must happen before others. What do you think this program is trying to accomplish overall?"}
       ELSE IF AnyIn(<< "function", "def", "return" >>, message_lower)
       THEN {"Functions are like little machines that take inputs and produce outputs. In your blocks, the 'def' line is like setting up the machine, and 'return' is like the machine giving you back the result. Where do you think each part should go?"}
       ELSE IF AnyIn(<< "loop", "for", "while" >>, message_lower)
       THEN {"Loops repeat code multiple times. The code inside the loop should be indented. What's confusing you about the loop in this problem?"}
       ELSE IF AnyIn(<< "help", "stuck", "confused" >>, message_lower)
       THEN IF Len(user_solution) = 0
            THEN {"No worries - everyone starts somewhere! Look at all your code blocks and think: if this were a story, what would happen first? What's the opening scene of this program?"}
            ELSE IF Cardinality(topics_discussed) > 1
            THEN {"You've been doing great thinking about " \o pair[1] \o " and " \o pair[2]
                    \o ". Sometimes it helps to step back and ask: what is this program's main job? Once you're clear on that, the order often becomes clearer." :
                  pair \in {ab \in topics_discussed \X topics_discussed : ab[1] /= ab[2]}}
            ELSE {"Let's break this down step by step. Looking at your current arrangement, does the order make sense if you were explaining it to a friend? What feels out of place?"}
       ELSE IF AnyIn(<< "right", "correct", "good" >>, message_lower)
       THEN IF "functions" \in topics_discussed
            THEN {"You're thinking well about the structure! Functions need their pieces in the right order too. What do you think should happen inside the function before it can return a result?"}
            ELSE {"You're asking the right questions! Take a look at what you have so far. If you were reading this code out loud, would it sound like a logical sequence of steps?"}
       ELSE IF Len(user_solution) = 0
       THEN {"I'm here to help you work through this step by step! What's your first instinct about which block should go first? There's no wrong answer - just tell me what you're thinking."}
       ELSE IF Len(user_solution) < 3
       THEN {"You've made a good start! Look at what you have so far and think about what should come next. What does the program need to do after these first steps?"}
       ELSE {"You're making progress! Step back and read through your current solution. Does it tell a clear 'story' of what the program should do? What part feels like it might be in the wrong place?"}

\* first index (1-based) at which the two lists differ as given, 0 when none
FirstRawMismatch(xs, ys) ==
    LET bad == {i \in 1..Min(Len(xs), Len(ys)) : xs[i] /= ys[i]}
    IN IF bad = {} THEN 0 ELSE CHOOSE i \in bad : \A j \in bad : i <= j

\* feedback_generator.generate_fallback_feedback
generate_fallback_feedback(correct_lines, user_solution) ==
    LET i == FirstRawMismatch(user_solution, correct_lines)
        correct_line == correct_lines[i]
    IN IF Len(user_solution) /= Len(correct_lines)
       THEN "I notice your solution has a different number of lines than expected. Have you included all the necessary code blocks? Are there any blocks that might not belong?"
       ELSE IF i = 0
       THEN "I see some issues with your solution. Can you review the logical flow of your program? What should happen first, and what operations follow?"
       ELSE IF i = 1
       THEN "I'm looking at the very first line of your solution. Is this the right place to start? What should happen first in this program?"
       ELSE IF AnyIn(<< "if", "for", "while", "def" >>, correct_line)
       THEN "Take a look at line " \o ToString(i) \o " of your solution. Should this be a control structure? What would be the logical flow at this point in the program?"
       ELSE IF Contains(correct_line, "=") \/ Contains(correct_line, "return")
       THEN "Consider line " \o ToString(i) \o ". What operation needs to happen at this point in the program? What values do we need to calculate or return?"
       ELSE "I'm noticing an issue around line " \o ToString(i) \o ". What do you think should happen at this point in the program flow?"

\* ------------------------------------------------------------------- state
VARIABLES
    problems,               \* the persisted collection (data/problems.json)
    file_exists,            \* does data/problems.json exist
    workers,                \* the workers serving problem creation / deletion / listing
    store_readable,         \* can data/problems.json be opened and read
    api_key,                \* openai.api_key: is a credential configured
    request,                \* the request being served
    pc,                     \* where its handler stands
    response,               \* the response sent for it
    chat_response_content,  \* get_chat_feedback's local of that name
    traditional_feedback,   \* get_chat_feedback's local of that name
    remote_calls,           \* get_openai_response invocations of this request
    trail,                  \* orchestrator states each reply generation went through
    comparator_calls,       \* validate_solution invocations of this request
    call                    \* a direct call of a validator or of the analysis

vars == << problems, file_exists, workers, store_readable, api_key, request, pc, response, chat_response_content,
           traditional_feedback, remote_calls, trail, comparator_calls, call >>

api_vars == << problems, file_exists, workers, store_readable, api_key, request, pc, response, chat_response_content,
               traditional_feedback, remote_calls, trail, comparator_calls >>

\* sequences over S of length at most n
BoundedSeq(S, n) == UNION {[1..k -> S] : k \in 0..n}

\* ------------------------------------------------------- requests, responses
\* Optional[Dict]: None is the dict without keys
NoContext == << >>

NoRequest == [endpoint |-> "none", problemId |-> "", solution |-> << >>,
              chatHistory |-> << >>, currentMessage |-> "",
              solutionContext |-> NoContext]

\* body holds the JSON object of a 2xx answer, and nothing otherwise
NoResponse == [status |-> 0, detail |-> "", body |-> << >>]

HttpError(code, text) == [status |-> code, detail |-> text, body |-> << >>]
HttpOk(json) == [status |-> 200, detail |-> "", body |-> << json >>]

\* ------------------------------------------------- direct calls (pure code)
\* lines a problem blob is made of
BlobLines == {"def f(x):", "return x", "    return x",
              "    print(x) #distractor", ""}

\* lines a learner can submit
SolutionLines == {"def f(x):", "return x", "    return x", "   return x", " "}

Blobs == {join_lines(ls) : ls \in BoundedSeq(BlobLines, MaxBlobLen)}
Solutions == BoundedSeq(SolutionLines, MaxSolLen)

\* the workers of the problem store, and one that serves nothing
Workers == {"w1", "w2"}
IdleWorker == [op |-> "none", id |-> "", pc |-> "idle", local |-> << >>, status |-> 0]
NoWorkers == [w \in Workers |-> IdleWorker]

NoCall == [fn |-> "none", initial |-> "", user_solution |-> << >>, result |-> << >>]

Call_validate_solution ==
    /\ call.fn = "none"
    /\ call' = [call EXCEPT !.fn = "validate_solution",
                            !.result = validate_solution(call.initial, call.user_solution)]
    /\ UNCHANGED api_vars

Call_fallback_validation ==
    /\ call.fn = "none"
    /\ call' = [call EXCEPT !.fn = "_fallback_validation",
                            !.result = fallback_validation(call.initial, call.user_solution)]
    /\ UNCHANGED api_vars

Call_basic_validation ==
    /\ call.fn = "none"
    /\ call' = [call EXCEPT !.fn = "_basic_validation",
                            !.result = basic_validation(call.initial, call.user_solution)]
    /\ UNCHANGED api_vars

Call_analyze_solution_state_enhanced ==
    /\ call.fn = "none"
    /\ call' = [call EXCEPT !.fn = "analyze_solution_state_enhanced",
                            !.result = analyze_solution_state_enhanced(
                                           call.initial, call.user_solution, None)]
    /\ UNCHANGED api_vars

\* extract_correct_lines takes the problem alone: it is called where no
\* submission is at hand
Call_extract_correct_lines ==
    /\ call.fn = "none"
    /\ call.user_solution = << >>
    /\ call' = [call EXCEPT !.fn = "extract_correct_lines",
                            !.result = [correct_lines |-> extract_correct_lines(call.initial)]]
    /\ UNCHANGED api_vars

\* the service is handed the canonical lines and the submission as received
Call_analyze_programming_concepts ==
    /\ call.fn = "none"
    /\ call' = [call EXCEPT !.fn = "analyze_programming_concepts",
                            !.result = analyze_programming_concepts(
                                           call.user_solution,
                                           extract_correct_lines(call.initial))]
    /\ UNCHANGED api_vars

ApiIdle ==
    /\ problems = << >>
    /\ file_exists = FALSE
    /\ workers = NoWorkers
    /\ store_readable = TRUE
    /\ api_key = FALSE
    /\ request = NoRequest
    /\ pc = "idle"
    /\ response = NoResponse
    /\ chat_response_content = ""
    /\ traditional_feedback = ""
    /\ remote_calls = 0
    /\ trail = << >>
    /\ comparator_calls = 0

InitCore ==
    /\ ApiIdle
    /\ \E b \in Blobs, u \in Solutions :
           call = [NoCall EXCEPT !.initial = b, !.user_solution = u]

NextCore ==
    \/ Call_validate_solution
    \/ Call_fallback_validation
    \/ Call_basic_validation
    \/ Call_analyze_solution_state_enhanced
    \/ Call_analyze_programming_concepts
    \/ Call_extract_correct_lines

SpecCore == InitCore /\ [][NextCore]_vars

\* ------------------------------------------------------ comparator claims
IsVerdictCall == call.fn \in {"validate_solution", "_fallback_validation", "_basic_validation"}

\* what the data model calls correct: same length once blank submitted lines are
\* dropped, and content and indentation level equal at every position
CanonicalOf(initial) == extract_correct_lines(initial)
SubmittedOf(user_solution) == clean_user_solution(user_solution)

ContentEqualAt(c, u, i) == strip(u[i]) = strip(c[i])
LevelEqualAt(c, u, i) == indent_level(u[i]) = indent_level(c[i])

PositionwiseEqual(c, u) ==
    /\ Len(u) = Len(c)
    /\ \A i \in 1..Len(c) : ContentEqualAt(c, u, i) /\ LevelEqualAt(c, u, i)

\* C1: isCorrect is true iff, blank submitted lines dropped, the submission has
\* the canonical length and equals the canonical line in trimmed content and in
\* indentation level at every position.
C1_IsCorrectIffContentAndIndent ==
    IsVerdictCall =>
        (call.result.isCorrect <=>
            PositionwiseEqual(CanonicalOf(call.initial), SubmittedOf(call.user_solution)))

IndentMismatchAt(c, u, i) == ContentEqualAt(c, u, i) /\ ~LevelEqualAt(c, u, i)

\* C3: for a submission of the canonical length, a position whose trimmed
\* content equals the canonical line's while its indentation level differs
\* makes the verdict isCorrect = FALSE, and a validator that lists indentation
\* errors lists that position with the expected and the actual level.
C3_IndentationMismatchReported ==
    LET c == CanonicalOf(call.initial)
        u == SubmittedOf(call.user_solution)
        errs == call.result.indentation_errors
    IN (IsVerdictCall /\ Len(u) = Len(c)) =>
           \A i \in 1..Len(c) :
               IndentMismatchAt(c, u, i) =>
                   /\ ~call.result.isCorrect
                   /\ call.fn = "_fallback_validation" =>
                          \E k \in 1..Len(errs) :
                              /\ errs[k].lineIndex = i - 1
                              /\ errs[k].expectedIndent = indent_level(c[i])
                              /\ errs[k].currentIndent = indent_level(u[i])

Abs(n) == IF n < 0 THEN 0 - n ELSE n

\* non-blank submitted lines minus canonical lines of the call
LengthDelta == Len(SubmittedOf(call.user_solution)) - Len(CanonicalOf(call.initial))

MissingIssue(n) == "Missing " \o ToString(n) \o " code block(s)"
ExtraIssue(n) == "Has " \o ToString(n) \o " extra code block(s)"
LengthIssues == {MissingIssue(n) : n \in 0..(MaxSolLen + MaxBlobLen)}
                    \cup {ExtraIssue(n) : n \in 0..(MaxSolLen + MaxBlobLen)}
LengthLabels == {"incomplete_solution", "extra_blocks"}
Members(seq) == {seq[k] : k \in 1..Len(seq)}

\* C4: when the number of non-blank submitted lines differs from the number of
\* canonical lines, every validator answers isCorrect = FALSE, and the analysis
\* reports exactly one length issue: the absolute difference, as missing when
\* the submission is shorter and as extra when it is longer.
C4_LengthMismatchCounted ==
    LengthDelta /= 0 =>
        /\ IsVerdictCall => ~call.result.isCorrect
        /\ call.fn = "analyze_solution_state_enhanced" =>
               /\ Members(call.result.specific_issues) \cap LengthIssues =
                      {IF LengthDelta < 0 THEN MissingIssue(Abs(LengthDelta))
                       ELSE ExtraIssue(Abs(LengthDelta))}
               /\ Members(call.result.error_types) \cap LengthLabels =
                      {IF LengthDelta < 0 THEN "incomplete_solution" ELSE "extra_blocks"}

C4_Witness ==
    /\ call.fn = "analyze_solution_state_enhanced"
    /\ LengthDelta = 0 - 2
    /\ MissingIssue(2) \in Members(call.result.specific_issues)

\* ------------------------------------------------------------ the HTTP API
\* what requests are made of
RequestIds == {"p1", "p2", "nope", ""}
ApiSolutionLines == {"def f(x):", "return x", "    return x"}
ApiSolutions == BoundedSeq(ApiSolutionLines, MaxSolLen)
Histories == {<< >>,
              << [role |-> "tutor", content |-> "What should the loop indent first?"],
                 [role |-> "student", content |-> "I think the def goes first, indent later"] >>}
Messages == {"", "   ", " I am stuck, this is hard ", "which indent is right?"}
Contexts == {NoContext, [isCorrect |-> TRUE], [isCorrect |-> FALSE]}

\* what the remote text-generation service can answer (already stripped by
\* get_openai_response)
RECURSIVE Repeat(_, _)
Repeat(s, n) == IF n = 0 THEN "" ELSE s \o Repeat(s, n - 1)

LongReply == Repeat("Think about which line has to run first in your program. ", 10)
                \o "What comes next?"
ChatReplies == {"", "You are close. What does the def line need before it? Think again",
                LongReply}
FeedbackReplies == {"What should happen before the function returns?"}

StoredProblems ==
    << [id |-> "p1", initial |-> "def f(x):\n    return x"],
       [id |-> "p2", initial |-> "return x\n\n    return x\n    print(x) #distractor\n"] >>

\* a load that leaves the file holding the empty list whatever it held
content_emptied(exists, content) == << >>

\* what data/problems.json holds once load_problems has returned: a missing
\* file is created holding the empty list
content_after_load(exists, content) == IF exists THEN content ELSE << >>

\* routers/problems.load_problems, as far as it touches the file
load_problems ==
    /\ file_exists' = TRUE
    /\ problems' = content_after_load(file_exists, problems)

\* next((p for p in problems if p["id"] == problem_id), None)
Found(problem_id) == \E i \in 1..Len(problems) : problems[i].id = problem_id
Lookup(problem_id) ==
    problems[CHOOSE i \in 1..Len(problems) :
                /\ problems[i].id = problem_id
                /\ \A j \in 1..(i - 1) : problems[j].id /= problem_id]

\* a credential decision that finds a key whatever openai.api_key holds
credential_assumed == TRUE

\* if not openai.api_key: ... (the credential decision of both generators)
has_credential == api_key

\* a python call of solution_validator.validate_solution with positional
\* arguments: the function takes (problem_settings, user_solution)
ValidatorArity == 2

invoke_validate_solution(args) ==
    IF Len(args) = ValidatorArity
    THEN [raised |-> FALSE, value |-> validate_solution(args[1], args[2])]
    ELSE [raised |-> TRUE, value |-> [isCorrect |-> FALSE, details |-> "TypeError"]]

\* generate_chat_response, except-branch: the remote call raised
chat_on_remote_failure(req) ==
    {[raised |-> FALSE, value |-> reply] :
        reply \in generate_chat_fallback_enhanced(req.currentMessage, req.solution,
                                                  req.chatHistory)}

\* generate_chat_response, remote call returned
chat_on_remote_success(req, initial, ai_response) ==
    [raised |-> FALSE,
     value |-> post_process_chat_response_enhanced(
                   ai_response, req.currentMessage,
                   build_conversation_context_enhanced(req.chatHistory),
                   analyze_solution_state_enhanced(initial, req.solution, None))]

\* generate_feedback without a credential, and its except-branch
feedback_fallback(initial, user_solution) ==
    [raised |-> FALSE,
     value |-> generate_fallback_feedback(extract_correct_lines(initial),
                                          clean_user_solution(user_solution))]

\* an except-branch that lets the remote call's exception through
feedback_failure_propagates(initial, user_solution) ==
    [raised |-> TRUE, value |-> ""]


feedback_on_remote_failure(initial, user_solution) ==
    feedback_fallback(initial, user_solution)

\* one reply generation and the orchestrator states it has gone through
Generation(fn, states) == [fn |-> fn, states |-> states, raised |-> FALSE, value |-> ""]

Advance(tr, states, result) ==
    [tr EXCEPT ![Len(tr)] = [@ EXCEPT !.states = @ \o states,
                                      !.raised = result.raised,
                                      !.value = result.value]]

\* a response that carries the feedback and leaves the verdict out
ChatBodyWithoutVerdict(ok, text, content, feedback, validation) ==
    [success |-> ok, message |-> text,
     chatMessage |-> [role |-> "tutor", content |-> content],
     traditionalFeedback |-> feedback, solutionValidation |-> << >>]


ChatBody(ok, text, content, feedback, validation) ==
    [success |-> ok, message |-> text,
     chatMessage |-> [role |-> "tutor", content |-> content],
     traditionalFeedback |-> feedback, solutionValidation |-> validation]

\* get_chat_feedback, except Exception: the soft failure
SoftFailure ==
    HttpOk(ChatBody(FALSE, "Error generating chat response",
                    "I apologize, but I encountered an error. Please try asking your question again, or let me know if you need help with a specific part of the problem.",
                    << >>, << >>))

\* get_chat_feedback from the traditional feedback's result to the response:
\* validate_solution, then the ChatFeedbackResponse
ChatRespond(req, content, fb, tr) ==
    LET validation == IF fb.raised THEN [raised |-> TRUE, value |-> << >>]
                      ELSE invoke_validate_solution(
                               << Lookup(req.problemId).initial, req.solution >>)
        failed == fb.raised \/ validation.raised
    IN /\ pc' = "done"
       /\ trail' = tr
       /\ chat_response_content' = content
       /\ traditional_feedback' =
              IF failed THEN "Unable to generate traditional feedback at this time."
              ELSE fb.value
       /\ comparator_calls' = IF fb.raised \/ validation.raised THEN comparator_calls
                              ELSE comparator_calls + 1
       /\ response' = HttpOk(ChatBody(TRUE, "Chat response generated successfully", content,
              << traditional_feedback' >>,
              << IF failed
                 THEN [isCorrect |-> FALSE, details |-> "Unable to validate solution at this time."]
                 ELSE [isCorrect |-> validation.value.isCorrect,
                       details |-> validation.value.details] >>))

\* get_chat_feedback once the chat reply is known: the traditional feedback
ChatTraditional(req, reply, tr) ==
    LET content == IF reply.raised
                   THEN "I'm here to help! Can you tell me more about what you're trying to figure out with this problem?"
                   ELSE reply.value
        initial == Lookup(req.problemId).initial
    IN IF Len(req.solution) = 0
       THEN /\ pc' = "done"
            /\ trail' = tr
            /\ chat_response_content' = content
            /\ response' = HttpOk(ChatBody(TRUE, "Chat response generated successfully",
                                           content, << >>, << >>))
            /\ UNCHANGED << traditional_feedback, comparator_calls, remote_calls >>
       ELSE IF has_credential
       THEN /\ pc' = "feedback_remote"
            /\ trail' = Append(tr, Generation("generate_feedback",
                                              << "CREDENTIAL_PRESENT", "ATTEMPT_REMOTE" >>))
            /\ chat_response_content' = content
            /\ remote_calls' = remote_calls + 1
            /\ UNCHANGED << response, traditional_feedback, comparator_calls >>
       ELSE /\ ChatRespond(req, content, feedback_fallback(initial, req.solution),
                Advance(Append(tr, Generation("generate_feedback", << "NO_CREDENTIAL" >>)),
                        << "FALLBACK" >>, feedback_fallback(initial, req.solution)))
            /\ UNCHANGED remote_calls

Answer(resp) ==
    /\ pc' = "done"
    /\ response' = resp
    /\ UNCHANGED << chat_response_content, traditional_feedback, remote_calls, trail,
                    comparator_calls >>

\* an emptiness test that lets every list through
no_solution_never(solution) == FALSE

\* check_solution: if not submission.solution
no_solution(solution) == Len(solution) = 0

\* POST /api/solutions/validate: check_solution
ValidateRequest(problemId, solution, solutionContext) ==
    LET req == [NoRequest EXCEPT !.endpoint = "validate", !.problemId = problemId,
                                 !.solution = solution,
                                 !.solutionContext = solutionContext]
        result == invoke_validate_solution(
                      << Lookup(problemId).initial, solution, solutionContext >>)
    IN /\ pc = "idle"
       /\ request' = req
       /\ UNCHANGED << workers, store_readable, api_key, call >>
       /\ IF store_readable THEN load_problems ELSE UNCHANGED << problems, file_exists >>
       /\ IF ~store_readable THEN Answer(HttpError(500, "Internal Server Error"))
          ELSE IF ~Found(problemId) THEN Answer(HttpError(404, "Problem not found"))
          ELSE IF no_solution(solution)
          THEN Answer(HttpOk([isCorrect |-> FALSE, details |-> "No solution provided"]))
          ELSE /\ pc' = "done"
               /\ response' = IF result.raised
                              THEN HttpError(500, "Failed to validate solution")
                              ELSE HttpOk(result.value)
               /\ comparator_calls' = IF result.raised THEN comparator_calls
                                      ELSE comparator_calls + 1
               /\ UNCHANGED << chat_response_content, traditional_feedback,
                               remote_calls, trail >>

\* POST /api/feedback: get_feedback, up to the remote call
FeedbackRequest(problemId, userSolution) ==
    LET req == [NoRequest EXCEPT !.endpoint = "feedback", !.problemId = problemId,
                                 !.solution = userSolution]
        fb == feedback_fallback(Lookup(problemId).initial, userSolution)
    IN /\ pc = "idle"
       /\ request' = req
       /\ UNCHANGED << workers, store_readable, api_key, call >>
       /\ IF store_readable THEN load_problems ELSE UNCHANGED << problems, file_exists >>
       /\ IF ~store_readable THEN Answer(HttpError(500, "Internal Server Error"))
          ELSE IF ~Found(problemId) THEN Answer(HttpError(404, "Problem not found"))
          ELSE IF has_credential
          THEN /\ pc' = "feedback_remote"
               /\ remote_calls' = remote_calls + 1
               /\ trail' = Append(trail, Generation("generate_feedback",
                                      << "CREDENTIAL_PRESENT", "ATTEMPT_REMOTE" >>))
               /\ UNCHANGED << response, chat_response_content, traditional_feedback,
                               comparator_calls >>
          ELSE /\ pc' = "done"
               /\ trail' = Advance(Append(trail, Generation("generate_feedback",
                                                            << "NO_CREDENTIAL" >>)),
                                   << "FALLBACK" >>, fb)
               /\ response' = HttpOk([feedback |-> fb.value])
               /\ UNCHANGED << chat_response_content, traditional_feedback,
                               remote_calls, comparator_calls >>

\* POST /api/feedback/chat: the ChatFeedbackRequest validators, then
\* get_chat_feedback up to the first remote call
ChatRequest(problemId, userSolution, chatHistory, currentMessage, solutionContext) ==
    LET req == [endpoint |-> "chat", problemId |-> problemId, solution |-> userSolution,
                chatHistory |-> chatHistory, currentMessage |-> strip(currentMessage),
                solutionContext |-> solutionContext]
    IN /\ pc = "idle"
       /\ request' = req
       /\ UNCHANGED << workers, store_readable, api_key, call >>
       /\ IF Len(strip(currentMessage)) > 0 /\ problemId /= "" /\ store_readable
          THEN load_problems ELSE UNCHANGED << problems, file_exists >>
       /\ IF Len(strip(currentMessage)) = 0
          THEN Answer(HttpError(422, "Current message must be a non-empty string"))
          ELSE IF problemId = ""
          THEN Answer(HttpError(400, "Problem ID is required"))
          ELSE IF req.currentMessage = "" \/ strip(req.currentMessage) = ""
          THEN Answer(HttpError(400, "Current message cannot be empty"))
          ELSE IF ~store_readable THEN Answer(SoftFailure)
          ELSE IF ~Found(problemId) THEN Answer(HttpError(404, "Problem not found"))
          ELSE IF has_credential
          THEN /\ pc' = "chat_remote"
               /\ remote_calls' = remote_calls + 1
               /\ trail' = Append(trail, Generation("generate_chat_response",
                                      << "CREDENTIAL_PRESENT", "ATTEMPT_REMOTE" >>))
               /\ UNCHANGED << response, chat_response_content, traditional_feedback,
                               comparator_calls >>
          ELSE \E reply \in chat_on_remote_failure(req) :
                  ChatTraditional(req, reply,
                      Advance(Append(trail, Generation("generate_chat_response",
                                                       << "NO_CREDENTIAL" >>)),
                              << "FALLBACK" >>, reply))

\* the remote call of generate_chat_response returns
ChatRemoteReturns(ai_response) ==
    LET reply == chat_on_remote_success(request, Lookup(request.problemId).initial,
                                        ai_response)
    IN /\ pc = "chat_remote"
       /\ UNCHANGED << problems, file_exists, workers, store_readable, api_key, call, request >>
       /\ ChatTraditional(request, reply, Advance(trail, << "SUCCESS" >>, reply))

\* the remote call of generate_chat_response raises
ChatRemoteRaises ==
    /\ pc = "chat_remote"
    /\ UNCHANGED << problems, file_exists, workers, store_readable, api_key, call, request >>
    /\ \E reply \in chat_on_remote_failure(request) :
           ChatTraditional(request, reply,
                           Advance(trail, << "REMOTE_FAILURE", "FALLBACK" >>, reply))

\* generate_feedback's result reaches its caller: get_feedback or get_chat_feedback
FeedbackDone(fb, tr) ==
    IF request.endpoint = "chat"
    THEN /\ ChatRespond(request, chat_response_content, fb, tr)
         /\ UNCHANGED remote_calls
    ELSE /\ pc' = "done"
         /\ trail' = tr
         /\ response' = IF fb.raised THEN HttpError(500, "Failed to generate feedback")
                        ELSE HttpOk([feedback |-> fb.value])
         /\ UNCHANGED << chat_response_content, traditional_feedback, remote_calls,
                         comparator_calls >>

\* the remote call of generate_feedback returns
FeedbackRemoteReturns(feedback) ==
    /\ pc = "feedback_remote"
    /\ UNCHANGED << problems, file_exists, workers, store_readable, api_key, call, request >>
    /\ FeedbackDone([raised |-> FALSE, value |-> feedback],
                    Advance(trail, << "SUCCESS" >>, [raised |-> FALSE, value |-> feedback]))

\* the remote call of generate_feedback raises
FeedbackRemoteRaises ==
    LET fb == feedback_on_remote_failure(Lookup(request.problemId).initial,
                                          request.solution)
    IN /\ pc = "feedback_remote"
       /\ UNCHANGED << problems, file_exists, workers, store_readable, api_key, call, request >>
       /\ FeedbackDone(fb, Advance(trail, << "REMOTE_FAILURE", "FALLBACK" >>, fb))

\* the response has been sent; the worker takes the next request
Finish ==
    /\ pc = "done"
    /\ pc' = "idle"
    /\ request' = NoRequest
    /\ response' = NoResponse
    /\ chat_response_content' = ""
    /\ traditional_feedback' = ""
    /\ remote_calls' = 0
    /\ trail' = << >>
    /\ comparator_calls' = 0
    /\ UNCHANGED << problems, file_exists, workers, store_readable, api_key, call >>

\* the environment: data/problems.json becomes unreadable, or readable again
StoreFault ==
    /\ pc = "idle"
    /\ store_readable' = ~store_readable
    /\ UNCHANGED << problems, file_exists, workers, api_key, request, pc, response, chat_response_content,
                    traditional_feedback, remote_calls, trail, comparator_calls, call >>

Init ==
    /\ file_exists \in BOOLEAN
    /\ problems = (IF file_exists THEN StoredProblems ELSE << >>)
    /\ workers = NoWorkers
    /\ store_readable = TRUE
    /\ api_key \in BOOLEAN
    /\ request = NoRequest
    /\ pc = "idle"
    /\ response = NoResponse
    /\ chat_response_content = ""
    /\ traditional_feedback = ""
    /\ remote_calls = 0
    /\ trail = << >>
    /\ comparator_calls = 0
    /\ call = NoCall

Next ==
    \/ \E id \in RequestIds, s \in ApiSolutions, c \in Contexts : ValidateRequest(id, s, c)
    \/ \E id \in RequestIds, s \in ApiSolutions : FeedbackRequest(id, s)
    \/ \E id \in RequestIds, s \in ApiSolutions, h \in Histories, m \in Messages,
          c \in Contexts : ChatRequest(id, s, h, m, c)
    \/ \E r \in ChatReplies : ChatRemoteReturns(r)
    \/ ChatRemoteRaises
    \/ \E r \in FeedbackReplies : FeedbackRemoteReturns(r)
    \/ FeedbackRemoteRaises
    \/ Finish
    \/ StoreFault

Spec == Init /\ [][Next]_vars

\* --------------------------------------------------------- endpoint claims
Served(endpoint) == request.endpoint = endpoint /\ pc = "done"

\* the handler of the request could read the store and found the problem
ProblemServed == store_readable /\ Found(request.problemId)

Canonical == CanonicalOf(Lookup(request.problemId).initial)

\* C2: the validate endpoint answers a non-empty submission that equals the
\* canonical lines in trimmed content and indentation with a normal response
\* whose isCorrect is TRUE, with or without a solutionContext.
C2_ValidateAcceptsMatch ==
    (/\ Served("validate")
     /\ ProblemServed
     /\ Len(request.solution) > 0
     /\ PositionwiseEqual(Canonical, request.solution))
        => /\ response.status = 200
           /\ response.body[1].isCorrect

HasFlag == request.solutionContext /= NoContext

\* C5: a request whose solutionContext carries an isCorrect flag gets that flag
\* back as its verdict: isCorrect of the validate endpoint, and
\* solutionValidation.isCorrect of the chat endpoint.
C5_ContextFlagEchoed ==
    (pc = "done" /\ ProblemServed /\ Len(request.solution) > 0 /\ HasFlag) =>
        /\ request.endpoint = "validate" =>
               /\ response.status = 200
               /\ response.body[1].isCorrect = request.solutionContext.isCorrect
        /\ (request.endpoint = "chat" /\ response.status = 200) =>
               /\ Len(response.body[1].solutionValidation) = 1
               /\ response.body[1].solutionValidation[1].isCorrect
                      = request.solutionContext.isCorrect

RemoteFailed(g) == Len(g.states) >= 3 /\ g.states[3] = "REMOTE_FAILURE"

\* the fallback replies of a generator for the request being served
FallbackReplies(fn) ==
    IF fn = "generate_chat_response"
    THEN generate_chat_fallback_enhanced(request.currentMessage, request.solution,
                                         request.chatHistory)
    ELSE {generate_fallback_feedback(
              extract_correct_lines(Lookup(request.problemId).initial),
              clean_user_solution(request.solution))}

\* C6: with a credential, a remote call that raises makes generate_chat_response
\* and generate_feedback return the fallback reply for the same inputs; the
\* exception never reaches their caller.
C6_RemoteFailureFallsBack ==
    /\ \A k \in 1..Len(trail) :
           RemoteFailed(trail[k]) =>
               /\ api_key
               /\ ~trail[k].raised
               /\ trail[k].states = << "CREDENTIAL_PRESENT", "ATTEMPT_REMOTE",
                                       "REMOTE_FAILURE", "FALLBACK" >>
               /\ trail[k].value \in FallbackReplies(trail[k].fn)
    /\ (Served("feedback") /\ Len(trail) = 1 /\ RemoteFailed(trail[1])) =>
           /\ response.status = 200
           /\ response.body[1].feedback = trail[1].value

C6_Witness ==
    /\ Served("feedback")
    /\ Len(trail) = 1
    /\ RemoteFailed(trail[1])
    /\ response.status = 200
    /\ Len(request.solution) = 2

WellFormedChat ==
    /\ Served("chat")
    /\ request.currentMessage /= ""
    /\ \E i \in 1..Len(problems) : problems[i].id = request.problemId

\* C7: a well-formed chat request that names an existing problem is answered
\* with status 200 and a chatMessage of role tutor with non-empty content,
\* success being FALSE only after an internal error; it is never answered 500,
\* also when every remote call fails.
C7_ChatNeverFails ==
    WellFormedChat =>
        /\ response.status = 200
        /\ response.body[1].chatMessage.role = "tutor"
        /\ response.body[1].chatMessage.content /= ""
        /\ ~response.body[1].success => ~store_readable

C7_Witness ==
    /\ WellFormedChat
    /\ Len(trail) = 2
    /\ \A k \in 1..Len(trail) : RemoteFailed(trail[k])
    /\ response.status = 200
    /\ response.body[1].success

\* C8: without a credential no reply generation invokes the remote client and
\* every reply is the fallback responder's; with a credential every finished
\* reply generation ended in exactly one of SUCCESS and REMOTE_FAILURE ->
\* FALLBACK, after one remote call.
C8_CredentialDecidesPath ==
    /\ ~api_key =>
           /\ remote_calls = 0
           /\ pc \notin {"chat_remote", "feedback_remote"}
           /\ \A k \in 1..Len(trail) :
                  /\ trail[k].states = << "NO_CREDENTIAL", "FALLBACK" >>
                  /\ trail[k].value \in FallbackReplies(trail[k].fn)
    /\ api_key =>
           /\ \A k \in 1..Len(trail) :
                  \/ trail[k].states = << "CREDENTIAL_PRESENT", "ATTEMPT_REMOTE", "SUCCESS" >>
                  \/ trail[k].states = << "CREDENTIAL_PRESENT", "ATTEMPT_REMOTE",
                                          "REMOTE_FAILURE", "FALLBACK" >>
                  \/ /\ k = Len(trail)
                     /\ pc \in {"chat_remote", "feedback_remote"}
                     /\ trail[k].states = << "CREDENTIAL_PRESENT", "ATTEMPT_REMOTE" >>
           /\ remote_calls = Len(trail)

C8_Witness ==
    /\ ~api_key
    /\ Served("chat")
    /\ Len(trail) = 2
    /\ remote_calls = 0
    /\ response.status = 200

\* C9: a chat response carries traditionalFeedback and solutionValidation both
\* or neither; when success is TRUE it carries both exactly when the submitted
\* userSolution is non-empty.
C9_FeedbackAndVerdictTogether ==
    (Served("chat") /\ response.status = 200) =>
        LET body == response.body[1]
        IN /\ Len(body.traditionalFeedback) = Len(body.solutionValidation)
           /\ body.success =>
                  (Len(body.traditionalFeedback) = 1 <=> Len(request.solution) > 0)

C9_Witness ==
    /\ Served("chat")
    /\ response.status = 200
    /\ response.body[1].success
    /\ Len(request.solution) > 0
    /\ Len(response.body[1].traditionalFeedback) = 1
    /\ Len(response.body[1].solutionValidation) = 1

\* C10: a chat request whose currentMessage is empty or only whitespace, or
\* whose problemId is empty, is answered 400 before any lookup or reply
\* generation.
C10_EmptyInputRejected400 ==
    (Served("chat") /\ (request.currentMessage = "" \/ request.problemId = "")) =>
        /\ response.status = 400
        /\ trail = << >>
        /\ remote_calls = 0
        /\ comparator_calls = 0

\* C11: the validate endpoint answers an empty solution list for an existing
\* problem with isCorrect = FALSE and details "No solution provided" without
\* calling validate_solution, and answers an unknown problemId with 404
\* whatever the solution is.
C11_EmptySolutionShortCircuits ==
    (Served("validate") /\ store_readable) =>
        /\ (Found(request.problemId) /\ Len(request.solution) = 0) =>
               /\ response = HttpOk([isCorrect |-> FALSE, details |-> "No solution provided"])
               /\ comparator_calls = 0
        /\ ~Found(request.problemId) =>
               /\ response.status = 404
               /\ comparator_calls = 0

C11_Witness ==
    /\ Served("validate")
    /\ store_readable
    /\ Found(request.problemId)
    /\ Len(request.solution) = 0
    /\ response.status = 200
    /\ ~response.body[1].isCorrect

\* ------------------------------------------- the problem store, concurrently
\* Independent worker processes serving POST /api/problems/generate,
\* DELETE /api/problems/{id} and GET /api/problems/ on one data/problems.json.
\* open(PROBLEMS_FILE, "w") empties the file before json.dump fills it; a
\* load_problems that reads the emptied file gets [] (JSONDecodeError).

\* str(uuid.uuid4()) of the worker's request
NewId(w) == "new-" \o w
DeleteTargets == {"p1", "nope"}

Ids(collection) == {collection[k].id : k \in 1..Len(collection)}
WithoutId(collection, problem_id) ==
    SelectSeq(collection, LAMBDA p : p.id /= problem_id)

HandlerIdle ==
    /\ store_readable = TRUE
    /\ api_key = FALSE
    /\ request = NoRequest
    /\ pc = "idle"
    /\ response = NoResponse
    /\ chat_response_content = ""
    /\ traditional_feedback = ""
    /\ remote_calls = 0
    /\ trail = << >>
    /\ comparator_calls = 0
    /\ call = NoCall

handler_vars == << store_readable, api_key, request, pc, response, chat_response_content,
                   traditional_feedback, remote_calls, trail, comparator_calls, call >>

\* a worker takes a request
StartWorker(w, op, problem_id) ==
    /\ workers[w].pc = "idle"
    /\ workers' = [workers EXCEPT ![w] = [IdleWorker EXCEPT !.op = op, !.id = problem_id,
                                                            !.pc = "load"]]
    /\ UNCHANGED << problems, file_exists, handler_vars >>

\* the handler from load_problems' return up to its save_problems call
AfterLoad(worker, loaded) ==
    IF worker.op = "create"
    THEN [worker EXCEPT !.local = Append(loaded, [id |-> worker.id, initial |-> "return x"]),
                        !.pc = "save"]
    ELSE IF worker.op = "delete"
    THEN IF Len(WithoutId(loaded, worker.id)) = Len(loaded)
         THEN [worker EXCEPT !.local = loaded, !.pc = "done", !.status = 404]
         ELSE [worker EXCEPT !.local = WithoutId(loaded, worker.id), !.pc = "save"]
    ELSE [worker EXCEPT !.local = loaded, !.pc = "done", !.status = 200]

\* load_problems: os.path.exists, then the read of an existing file
LoadCheck(w) ==
    /\ workers[w].pc = "load"
    /\ workers' = [workers EXCEPT ![w] =
                      IF file_exists THEN AfterLoad(@, problems)
                      ELSE [@ EXCEPT !.pc = "create_file"]]
    /\ UNCHANGED << problems, file_exists, handler_vars >>

\* load_problems: the file was missing; it is opened for writing and gets []
LoadCreate(w) ==
    /\ workers[w].pc = "create_file"
    /\ file_exists' = TRUE
    /\ problems' = << >>
    /\ workers' = [workers EXCEPT ![w] = AfterLoad(@, << >>)]
    /\ UNCHANGED handler_vars

\* save_problems: open(PROBLEMS_FILE, "w")
SaveOpen(w) ==
    /\ workers[w].pc = "save"
    /\ file_exists' = TRUE
    /\ problems' = << >>
    /\ workers' = [workers EXCEPT ![w].pc = "dump"]
    /\ UNCHANGED handler_vars

\* save_problems: json.dump and close
SaveDump(w) ==
    /\ workers[w].pc = "dump"
    /\ problems' = workers[w].local
    /\ workers' = [workers EXCEPT ![w].pc = "done", ![w].status = 200]
    /\ UNCHANGED << file_exists, handler_vars >>

InitStore ==
    /\ HandlerIdle
    /\ file_exists \in BOOLEAN
    /\ problems = (IF file_exists THEN StoredProblems ELSE << >>)
    /\ workers = NoWorkers

NextStore ==
    \/ \E w \in Workers : StartWorker(w, "create", NewId(w))
    \/ \E w \in Workers, t \in DeleteTargets : StartWorker(w, "delete", t)
    \/ \E w \in Workers : StartWorker(w, "list", "")
    \/ \E w \in Workers : LoadCheck(w)
    \/ \E w \in Workers : LoadCreate(w)
    \/ \E w \in Workers : SaveOpen(w)
    \/ \E w \in Workers : SaveDump(w)

SpecStore == InitStore /\ [][NextStore]_vars

Completed(op) == {workers[w].id : w \in {v \in Workers : /\ workers[v].op = op
                                                          /\ workers[v].pc = "done"
                                                          /\ workers[v].status = 200}}

\* C12: once every concurrently served creation and deletion has completed,
\* the persisted collection holds every created problem that was not deleted
\* and no deleted problem; a reader makes no stored problem disappear.
C12_NoLostUpdate ==
    (\A w \in Workers : workers[w].pc = "done") =>
        /\ Completed("create") \subseteq Ids(problems)
        /\ Completed("delete") \cap Ids(problems) = {}

\* ------------------------------------------------- the remote call, in time
\* get_openai_response hands the request to the client library and waits for
\* client.chat.completions.create to return or raise; it passes no timeout,
\* so nothing in the code obliges either remote action to happen.  The steps
\* the server itself takes are fair.
SpecLive == Init /\ [][Next]_vars /\ WF_vars(Finish)

RemotePending == pc \in {"chat_remote", "feedback_remote"}

\* C13: a chat or feedback request that has started its remote call is
\* eventually answered, whether or not the remote service ever answers.
C13_EveryRequestAnswered == RemotePending ~> (pc = "done")

\* ------------------------------------------------------ concept classifier
IsConceptCall == call.fn \in {"analyze_solution_state_enhanced", "analyze_programming_concepts"}

\* the two texts the classifier of the call is given
CanonicalText == lower(join(" ", CanonicalOf(call.initial)))
SubmittedText == lower(join(" ", IF call.fn = "analyze_solution_state_enhanced"
                                 THEN SubmittedOf(call.user_solution)
                                 ELSE call.user_solution))

KeywordOccurs(c, text) ==
    \E k \in 1..Len(concepts[c].keywords) :
        \E i \in 1..Len(text) :
            /\ i + Len(concepts[c].keywords[k]) - 1 <= Len(text)
            /\ SubSeq(text, i, i + Len(concepts[c].keywords[k]) - 1) = concepts[c].keywords[k]

ListedMissing(c) == concepts[c].name \in Members(call.result.missing_concepts)
ListedPresent(c) == concepts[c].name \in Members(call.result.correct_concepts)

\* C14: a concept is listed as missing only if a keyword of it occurs in the
\* canonical text and none in the submitted text, as present only if a keyword
\* occurs in both, never as both, and in neither list when no keyword of it
\* occurs in the canonical text.
C14_ConceptClassification ==
    IsConceptCall =>
        \A c \in 1..Len(concepts) :
            /\ ListedMissing(c) =>
                   KeywordOccurs(c, CanonicalText) /\ ~KeywordOccurs(c, SubmittedText)
            /\ ListedPresent(c) =>
                   KeywordOccurs(c, CanonicalText) /\ KeywordOccurs(c, SubmittedText)
            /\ ~(ListedMissing(c) /\ ListedPresent(c))
            /\ ~KeywordOccurs(c, CanonicalText) => ~ListedMissing(c) /\ ~ListedPresent(c)

C14_Witness ==
    /\ IsConceptCall
    /\ \E c \in 1..Len(concepts) : ListedMissing(c)
    /\ Len(call.user_solution) > 0

\* ------------------------------------------------------ canonical sequence
\* the newline-separated lines the blob of the call was written from
LinesOfBlob ==
    CHOOSE ls \in BoundedSeq(BlobLines, MaxBlobLen) : join_lines(ls) = call.initial

IsBlankLine(line) == \A i \in 1..Len(line) : SubSeq(line, i, i) \in {" ", "\t", "\n", "\r"}
Marker == "#distractor"
HasMarker(line) ==
    \E i \in 1..Len(line) :
        i + Len(Marker) - 1 <= Len(line) /\ SubSeq(line, i, i + Len(Marker) - 1) = Marker

\* positions of the lines that belong to the canonical sequence
KeptPositions ==
    {i \in 1..Len(LinesOfBlob) : ~IsBlankLine(LinesOfBlob[i]) /\ ~HasMarker(LinesOfBlob[i])}

\* C15: the canonical sequence holds, in blob order and character for
\* character, exactly the lines of the blob that are non-blank and carry no
\* #distractor marker.
C15_CanonicalIsKeptSubsequence ==
    call.fn = "extract_correct_lines" =>
        /\ Len(call.result.correct_lines) = Cardinality(KeptPositions)
        /\ \A i \in KeptPositions :
               call.result.correct_lines[Cardinality({j \in KeptPositions : j <= i})]
                   = LinesOfBlob[i]

C15_Witness ==
    /\ call.fn = "extract_correct_lines"
    /\ Len(LinesOfBlob) = 2
    /\ HasMarker(LinesOfBlob[1])
    /\ call.result.correct_lines = << "    return x" >>

\* ------------------------------------------------------ detailed comparison
\* the stripped contents the compared lines are made of
Contents == << "def f(x):", "return x", "print(x)" >>

\* str hashing is seeded per interpreter process (no PYTHONHASHSEED is set), and
\* the order in which a set of str is iterated follows the hashes: a process
\* lists the contents of a set in one order, another process in another
HashSeeds == {"seed_a", "seed_b"}

Reverse(seq) == [i \in 1..Len(seq) |-> seq[Len(seq) + 1 - i]]

iteration_order(hash_seed) == IF hash_seed = "seed_a" THEN Contents ELSE Reverse(Contents)

\* list(a_set - b_set) in a process with this seed
list_of_difference(hash_seed, a_lines, b_lines) ==
    SelectSeq(iteration_order(hash_seed),
              LAMBDA c : /\ \E i \in 1..Len(a_lines) : strip(a_lines[i]) = c
                         /\ \A j \in 1..Len(b_lines) : strip(b_lines[j]) /= c)

\* the inner loop with its break: the first canonical index (1-based) whose
\* stripped line equals the stripped user line, 0 when there is none
first_match(user_line, correct_solution) ==
    LET hits == {j \in 1..Len(correct_solution) :
                    strip(user_line) = strip(correct_solution[j])}
    IN IF hits = {} THEN 0 ELSE CHOOSE j \in hits : \A k \in hits : j <= k

\* the user indices (1-based) that have a match, in loop order
matched_indices(user_solution, correct_solution) ==
    SelectSeq([i \in 1..Len(user_solution) |-> i],
              LAMBDA i : first_match(user_solution[i], correct_solution) /= 0)

\* matching_positions after .sort(): pairs (user_pos, correct_pos), 0-based
matching_positions(user_solution, correct_solution) ==
    LET idx == matched_indices(user_solution, correct_solution)
        ps == [k \in 1..Len(idx) |->
                  << idx[k] - 1, first_match(user_solution[idx[k]], correct_solution) - 1 >>]
        Before(q, p) == q[1] < p[1] \/ (q[1] = p[1] /\ q[2] < p[2])
    IN [k \in 1..Len(ps) |->
           CHOOSE p \in {ps[n] : n \in 1..Len(ps)} :
               Cardinality({q \in {ps[n] : n \in 1..Len(ps)} : Before(q, p)}) = k - 1]

\* an order loop that finds nothing
order_breaks_none(positions) == << >>

\* indices i of range(1, len(matching_positions)) with a descending correct_pos
order_breaks(positions) ==
    SelectSeq([i \in 1..Len(positions) |-> i],
              LAMBDA i : i > 1 /\ positions[i][2] < positions[i - 1][2])

\* feedback_generator.compare_solutions_detailed
compare_solutions_detailed(user_solution, correct_solution, hash_seed) ==
    LET idx == matched_indices(user_solution, correct_solution)
        positions == matching_positions(user_solution, correct_solution)
        misplaced == {i \in 1..Len(user_solution) :
                         /\ first_match(user_solution[i], correct_solution) /= 0
                         /\ first_match(user_solution[i], correct_solution) /= i}
        breaks == order_breaks(positions)
    IN [matching_lines |->
            [k \in 1..Len(idx) |->
                [line |-> strip(user_solution[idx[k]]),
                 user_pos |-> idx[k] - 1,
                 correct_pos |-> first_match(user_solution[idx[k]], correct_solution) - 1,
                 is_correct_position |->
                     idx[k] = first_match(user_solution[idx[k]], correct_solution)]],
        misplaced_lines |-> << >>,
        missing_lines |-> list_of_difference(hash_seed, correct_solution, user_solution),
        extra_lines |-> list_of_difference(hash_seed, user_solution, correct_solution),
        order_issues |->
            [k \in 1..Len(breaks) |->
                [line |-> strip(user_solution[positions[breaks[k]][1] + 1]),
                 current_pos |-> positions[breaks[k]][1],
                 should_be_before |-> strip(user_solution[positions[breaks[k] - 1][1] + 1])]],
        first_error_position |->
            IF misplaced = {} THEN << >>
            ELSE << (CHOOSE i \in misplaced : \A j \in misplaced : i <= j) - 1 >>]

\* SharedValidationService.compare_solutions_detailed
shared_compare_solutions_detailed(user_solution, correct_solution, hash_seed) ==
    LET idx == matched_indices(user_solution, correct_solution)
        positions == matching_positions(user_solution, correct_solution)
        breaks == order_breaks(positions)
        mismatch == FirstContentMismatch(user_solution, correct_solution)
    IN [matching_lines |->
            [k \in 1..Len(idx) |->
                [user_pos |-> idx[k] - 1,
                 correct_pos |-> first_match(user_solution[idx[k]], correct_solution) - 1,
                 content |-> strip(user_solution[idx[k]])]],
        misplaced_lines |-> << >>,
        missing_lines |-> list_of_difference(hash_seed, correct_solution, user_solution),
        extra_lines |-> list_of_difference(hash_seed, user_solution, correct_solution),
        order_issues |->
            [k \in 1..Len(breaks) |->
                [user_pos |-> positions[breaks[k]][1],
                 expected_pos |-> positions[breaks[k]][2],
                 description |-> "Line appears before it should"]],
        first_error_position |-> IF mismatch = 0 THEN << >> ELSE << mismatch - 1 >>]

\* analyze_solution_state_enhanced with its comparison_with_correct entry
\* (an empty dict unless both line lists are non-empty)
analysis_with_comparison(initial, user_solution, hash_seed) ==
    LET analysis == analyze_solution_state_enhanced(initial, user_solution, None)
        cleaned_user_solution == clean_user_solution(user_solution)
        correct_lines == extract_correct_lines(initial)
    IN [analysis |-> analysis,
        comparison_with_correct |->
            IF Len(cleaned_user_solution) > 0 /\ Len(correct_lines) > 0
            THEN << compare_solutions_detailed(cleaned_user_solution, correct_lines,
                                               hash_seed) >>
            ELSE << >>]

\* lines of the problems and of the submissions that are compared
CanonicalLines == {"def f(x):", "return x", "    return x"}
SubmittedLines == {"def f(x):", "return x", "    return x", "print(x)"}

\* a call, or the same call once more: the earlier result is kept aside
Invoke(fn, result) ==
    /\ \/ call.fn = "none"
       \/ call.fn = fn /\ Len(call.previous) = 0
    /\ call' = [call EXCEPT !.fn = fn, !.result = result,
                            !.previous = IF call.fn = "none" THEN << >>
                                         ELSE << call.result >>]
    /\ UNCHANGED api_vars

\* a process with this hash seed runs the comparison
Call_compare_solutions_detailed(hash_seed) ==
    Invoke("compare_solutions_detailed",
           compare_solutions_detailed(call.user_solution,
                                      extract_correct_lines(call.initial), hash_seed))

Call_shared_compare_solutions_detailed(hash_seed) ==
    Invoke("SharedValidationService.compare_solutions_detailed",
           shared_compare_solutions_detailed(call.user_solution,
                                             extract_correct_lines(call.initial), hash_seed))

Call_analysis_with_comparison(hash_seed) ==
    Invoke("analyze_solution_state_enhanced",
           analysis_with_comparison(call.initial, call.user_solution, hash_seed))

InitCompare ==
    /\ ApiIdle
    /\ \E ls \in BoundedSeq(CanonicalLines, MaxBlobLen),
          u \in BoundedSeq(SubmittedLines, MaxSolLen) :
           call = [fn |-> "none", initial |-> join_lines(ls), user_solution |-> u,
                   result |-> << >>, previous |-> << >>]

NextCompare ==
    \/ \E h \in HashSeeds : Call_compare_solutions_detailed(h)
    \/ \E h \in HashSeeds : Call_shared_compare_solutions_detailed(h)
    \/ \E h \in HashSeeds : Call_analysis_with_comparison(h)

SpecCompare == InitCompare /\ [][NextCompare]_vars

\* C16: a comparison run again on the same canonical lines and the same
\* submission, in the same process or in another one, gives the output of the
\* first run in every field, the order of missing_lines and extra_lines included.
C16_ComparisonRepeatable ==
    (call.fn /= "none" /\ Len(call.previous) = 1) => call.result = call.previous[1]

\* the submission of the call is the canonical solution, line for line
IdenticalSubmission ==
    /\ call.user_solution = extract_correct_lines(call.initial)
    /\ Len(call.user_solution) > 0

\* C19: for a submission identical to the canonical solution the analysis
\* reports no indentation issue, no error type, no order issue, no missing or
\* extra line and no first error position, and marks every matched line as
\* being in its correct position.
C19_IdenticalSubmissionClean ==
    (call.fn = "analyze_solution_state_enhanced" /\ IdenticalSubmission) =>
        /\ ~call.result.analysis.has_indentation_issues
        /\ Len(call.result.analysis.error_types) = 0
        /\ Len(call.result.comparison_with_correct) = 1
        /\ LET comparison == call.result.comparison_with_correct[1]
           IN /\ Len(comparison.order_issues) = 0
              /\ Len(comparison.missing_lines) = 0
              /\ Len(comparison.extra_lines) = 0
              /\ Len(comparison.first_error_position) = 0
              /\ \A k \in 1..Len(comparison.matching_lines) :
                     comparison.matching_lines[k].is_correct_position

IsCompareCall ==
    call.fn \in {"compare_solutions_detailed",
                 "SharedValidationService.compare_solutions_detailed"}

\* indices (0-based) present in both lists where the trimmed contents differ
DifferingPositions ==
    LET canonical == extract_correct_lines(call.initial)
    IN {i \in 0..(Min(Len(call.user_solution), Len(canonical)) - 1) :
           lstrip(rstrip(call.user_solution[i + 1])) /= lstrip(rstrip(canonical[i + 1]))}

\* C20: either implementation of compare_solutions_detailed reports as
\* first_error_position the smallest index at which the trimmed submitted line
\* differs from the canonical line at that index, and none when no index differs.
C20_FirstErrorPosition ==
    IsCompareCall =>
        /\ DifferingPositions = {} => Len(call.result.first_error_position) = 0
        /\ DifferingPositions /= {} =>
               /\ Len(call.result.first_error_position) = 1
               /\ call.result.first_error_position[1] \in DifferingPositions
               /\ \A i \in DifferingPositions : call.result.first_error_position[1] <= i

\* ------------------------------------------------------- conversation stage
\* the turns a transcript grows by
Turns == {[role |-> "tutor", content |-> "What should the loop indent first?"],
          [role |-> "student", content |-> "I think the def goes first, indent later"]}

ContextOf(chat_history) ==
    [NoCall EXCEPT !.fn = "build_conversation_context_enhanced",
                   !.result = build_conversation_context_enhanced(chat_history)]

\* the conversation goes on: the next request carries the transcript with one
\* more turn, and its context is built from that transcript
AppendTurn(turn) ==
    /\ Len(request.chatHistory) < MaxTurns
    /\ request' = [request EXCEPT !.chatHistory = Append(@, turn)]
    /\ call' = ContextOf(Append(request.chatHistory, turn))
    /\ UNCHANGED << problems, file_exists, workers, store_readable, api_key, pc, response,
                    chat_response_content, traditional_feedback, remote_calls, trail,
                    comparator_calls >>

InitStage == ApiIdle /\ call = ContextOf(<< >>)

NextStage == \E turn \in Turns : AppendTurn(turn)

SpecStage == InitStage /\ [][NextStage]_vars

StageOrder == << "initial", "exploration", "guided_analysis", "deep_engagement" >>
StageRank(stage) == CHOOSE k \in 1..Len(StageOrder) : StageOrder[k] = stage

StageOfCount(n) ==
    IF n <= 2 THEN StageOrder[1]
    ELSE IF n <= 6 THEN StageOrder[2]
    ELSE IF n <= 10 THEN StageOrder[3]
    ELSE StageOrder[4]

\* C17: the stage of a transcript is the one its number of turns gives (up to 2
\* initial, 3 to 6 exploration, 7 to 10 guided_analysis, 11 or more
\* deep_engagement), and appending a turn never moves the stage backwards.
C17_StageMonotoneInTurns ==
    /\ [](call.result.conversation_stage = StageOfCount(Len(request.chatHistory)))
    /\ [][StageRank(call'.result.conversation_stage)
             >= StageRank(call.result.conversation_stage)]_vars

C17_Witness ==
    /\ Len(request.chatHistory) = 11
    /\ call.result.conversation_stage = "deep_engagement"

\* ------------------------------------------------------- frame of the store
\* C18: no step of a validate, feedback or chat request, whatever its outcome,
\* changes the persisted collection: the stored problems and their contents
\* after the step are those before it.
C18_RequestsLeaveStoreUnchanged == [][problems' = problems]_vars

\* a request found no file, load_problems created it, and the collection is
\* the empty one it was
C18_Witness ==
    /\ pc = "done"
    /\ request.endpoint \in {"validate", "feedback", "chat"}
    /\ response.status = 404
    /\ file_exists
    /\ problems = << >>

\* ------------------------------------------------------------ order issues
Trimmed(line) == lstrip(rstrip(line))

\* submitted indices (1-based) that have a canonical line of equal trimmed
\* content, and the first canonical index each is matched to
MatchedLines ==
    {i \in 1..Len(call.user_solution) :
        \E j \in 1..Len(extract_correct_lines(call.initial)) :
            Trimmed(call.user_solution[i]) = Trimmed(extract_correct_lines(call.initial)[j])}

MatchOf(i) ==
    LET canonical == extract_correct_lines(call.initial)
    IN CHOOSE j \in 1..Len(canonical) :
           /\ Trimmed(call.user_solution[i]) = Trimmed(canonical[j])
           /\ \A k \in 1..(j - 1) : Trimmed(call.user_solution[i]) /= Trimmed(canonical[k])

\* matched lines whose canonical position is below that of the matched line
\* right before them in the submission
OutOfOrderLines ==
    {i \in MatchedLines :
        \E p \in MatchedLines :
            /\ p < i
            /\ \A q \in MatchedLines : ~(p < q /\ q < i)
            /\ MatchOf(i) < MatchOf(p)}

\* the submitted index (1-based) an order_issues entry is about
IssuePosition(entry) ==
    IF call.fn = "compare_solutions_detailed" THEN entry.current_pos + 1
    ELSE entry.user_pos + 1

\* C21: order_issues has one entry for each matched line whose matched
\* canonical position is strictly smaller than that of the matched line before
\* it in submission order, and no other entry.
C21_OrderIssuesExact ==
    IsCompareCall =>
        /\ Len(call.result.order_issues) = Cardinality(OutOfOrderLines)
        /\ {IssuePosition(call.result.order_issues[k]) :
                k \in 1..Len(call.result.order_issues)} = OutOfOrderLines

C21_Witness ==
    /\ IsCompareCall
    /\ Len(call.result.order_issues) = 1
    /\ OutOfOrderLines = {2}

\* ------------------------------------------------ the conversation, analysed
\* what tutor and student say
TalkTurns ==
    {[role |-> "tutor", content |-> "What should the loop indent first?"],
     [role |-> "tutor", content |-> "okay, got it"],
     [role |-> "student", content |-> "okay"],
     [role |-> "student", content |-> "maybe the loop"],
     [role |-> "student", content |-> "I see"],
     [role |-> "student", content |-> "I am lost"],
     [role |-> "student", content |-> "yes definitely"]}

\* the transcript of the next request has one more turn
Say(turn) ==
    /\ Len(request.chatHistory) < MaxTalk
    /\ request' = [request EXCEPT !.chatHistory = Append(@, turn), !.currentMessage = ""]
    /\ call' = NoCall
    /\ UNCHANGED << problems, file_exists, workers, store_readable, api_key, pc, response,
                    chat_response_content, traditional_feedback, remote_calls, trail,
                    comparator_calls >>

Call_build_conversation_context_enhanced ==
    /\ call.fn = "none"
    /\ call' = ContextOf(request.chatHistory)
    /\ UNCHANGED api_vars

\* what the student asks with the transcript, and the blocks placed so far
TalkMessages == {"help, what do you mean?", "Maybe this is hard", "I am confused and lost",
                 "so why does it work? I believe it does", "fine"}
TalkProblem == "def f(x):\n    return x"
TalkSolutions == {<< >>, << "def f(x):", "    return x" >>}

\* generate_chat_response with a credential, from the context of the
\* request's transcript to the prompt
Call_generate_chat_response(current_message, user_solution) ==
    /\ call.fn = "build_conversation_context_enhanced"
    /\ call' = [fn |-> "generate_chat_response", initial |-> TalkProblem,
                user_solution |-> user_solution,
                result |-> chat_prompt_strategy(TalkProblem, user_solution,
                                                call.result, current_message)]
    /\ request' = [request EXCEPT !.currentMessage = current_message]
    /\ UNCHANGED << problems, file_exists, workers, store_readable, api_key, pc, response,
                    chat_response_content, traditional_feedback, remote_calls, trail,
                    comparator_calls >>

InitTalk == ApiIdle /\ call = NoCall

NextTalk ==
    \/ \E turn \in TalkTurns : Say(turn)
    \/ Call_build_conversation_context_enhanced
    \/ \E m \in TalkMessages, u \in TalkSolutions : Call_generate_chat_response(m, u)

SpecTalk == InitTalk /\ [][NextTalk]_vars

IsContextCall == call.fn = "build_conversation_context_enhanced"

Progression == call.result.teaching_progression
Understanding == call.result.student_understanding
TopicCount == Cardinality(call.result.topics_discussed)
PastInitial == call.result.conversation_stage /= "initial"

\* C22: the teaching progression follows the decision table: initial stage
\* gives diagnostic; past it, confused with fewer than 2 topics gives
\* diagnostic, understanding with at least 2 topics gives guidance, partial or
\* understanding with at least 1 topic gives analytical, and every other
\* combination gives diagnostic.
C22_ProgressionTable ==
    IsContextCall =>
        /\ ~PastInitial => Progression = "diagnostic"
        /\ (PastInitial /\ Understanding = "confused" /\ TopicCount < 2) =>
               Progression = "diagnostic"
        /\ (PastInitial /\ Understanding = "understanding" /\ TopicCount >= 2) =>
               Progression = "guidance"
        /\ (PastInitial /\ Understanding = "understanding" /\ TopicCount = 1) =>
               Progression = "analytical"
        /\ (PastInitial /\ Understanding = "partial" /\ TopicCount >= 1) =>
               Progression = "analytical"
        /\ (PastInitial /\ Understanding \in {"partial", "understanding"} /\ TopicCount = 0) =>
               Progression = "diagnostic"
        /\ (PastInitial /\ Understanding = "confused" /\ TopicCount >= 2) =>
               Progression = "diagnostic"
        /\ (PastInitial /\ Understanding \in {"confident", "unknown"}) =>
               Progression = "diagnostic"

\* positions of the student turns that have fewer than 3 student turns after them
RecentStudentTurns ==
    LET h == request.chatHistory
        students == {i \in 1..Len(h) : h[i].role = "student"}
    IN {i \in students : Cardinality({j \in students : j > i}) < 3}

\* turns among them that contain a keyword of the level, in any letter case
KeywordTurns(level) ==
    {i \in RecentStudentTurns :
        \E k \in 1..Len(understanding_indicators[level].keywords) :
            Contains(lower(request.chatHistory[i].content),
                     lower(understanding_indicators[level].keywords[k]))}

Levels == 1..Len(understanding_indicators)

\* C26: the understanding estimate is a level with the most turns, among the
\* last 3 student turns, that contain one of its keywords in any letter case,
\* and it is unknown exactly when no keyword occurs in them.
C26_UnderstandingEstimate ==
    IsContextCall =>
        /\ Understanding = "unknown" <=> \A l \in Levels : KeywordTurns(l) = {}
        /\ Understanding /= "unknown" =>
               \E l \in Levels :
                   /\ understanding_indicators[l].name = Understanding
                   /\ \A k \in Levels :
                          Cardinality(KeywordTurns(k)) <= Cardinality(KeywordTurns(l))

IsChatCall == call.fn = "generate_chat_response"

\* the strategies a chat request can be given
ReachableStrategies == {"supportive_simplification", "diagnostic_scaffolding",
                        "initial_exploration", "error_analysis", "adaptive_response"}

\* C29: no transcript is given the guidance progression, and no chat request
\* that generate_chat_response processes is given the solution_refinement
\* strategy: the strategy is one of the five others.
C29_GuidanceNeverReached ==
    /\ IsContextCall => Progression /= "guidance"
    /\ IsChatCall =>
           /\ call.result.conversation_context.teaching_progression /= "guidance"
           /\ call.result.teaching_strategy /= "solution_refinement"
           /\ call.result.teaching_strategy \in ReachableStrategies

\* a student past the initial stage who understands, with two topics or more
\* discussed: the case the guidance row was written for
C29_Witness ==
    /\ IsChatCall
    /\ call.result.conversation_context.conversation_stage /= "initial"
    /\ call.result.conversation_context.student_understanding = "understanding"
    /\ Cardinality(call.result.conversation_context.topics_discussed) >= 2
    /\ call.result.teaching_strategy = "adaptive_response"

\* the message, already lower-cased, has one of the bucket's keywords as a
\* substring
BucketMatches(bucket, message) ==
    \E k \in 1..Len(bucket.keywords) :
        \E i \in 1..Len(message) :
            /\ i + Len(bucket.keywords[k]) - 1 <= Len(message)
            /\ SubSeq(message, i, i + Len(bucket.keywords[k]) - 1) = bucket.keywords[k]

\* the classification by the earliest matching bucket of a fixed order
ClassifiedBy(buckets, text, default, class) ==
    LET message == lower(text)
    IN
    /\ \A b \in 1..Len(buckets) :
           (/\ BucketMatches(buckets[b], message)
            /\ \A a \in 1..(b - 1) : ~BucketMatches(buckets[a], message))
               => class = buckets[b].name
    /\ (\A b \in 1..Len(buckets) : ~BucketMatches(buckets[b], message)) => class = default

\* C27: intent is the first bucket, in the order seeking_help,
\* asking_clarification, proposing_solution, confirming_understanding,
\* expressing_frustration, asking_specific_question, with a keyword in the
\* lower-cased message, and general_inquiry when there is none; emotion is the
\* first of frustrated, confused, curious, confident, neutral, and neutral when
\* there is none.
C27_FirstBucketWins ==
    IsChatCall =>
        /\ ClassifiedBy(intent_patterns, request.currentMessage, "general_inquiry",
                        call.result.message_analysis.intent)
        /\ ClassifiedBy(emotional_indicators, request.currentMessage, "neutral",
                        call.result.message_analysis.emotional_state)

\* a message with keywords of a later intent bucket and of a later emotion bucket
C27_Witness ==
    /\ IsChatCall
    /\ request.currentMessage = "Maybe this is hard"
    /\ BucketMatches(intent_patterns[5], lower(request.currentMessage))
    /\ call.result.message_analysis.intent = "proposing_solution"
    /\ call.result.message_analysis.emotional_state = "frustrated"

\* ------------------------------------------------------- strategy selector
\* the values the selector's inputs range over
Progressions == {"diagnostic", "analytical", "guidance"}
Understandings == {"unknown", "confused", "partial", "understanding", "confident"}
EmotionalStates == {emotional_indicators[b].name : b \in 1..Len(emotional_indicators)}
Intents == {intent_patterns[b].name : b \in 1..Len(intent_patterns)} \cup {"general_inquiry"}
ErrorTypeLists == {<< >>, << "incomplete_solution" >>, << "indentation_error", "missing_concepts" >>}

StrategyArgs ==
    [teaching_progression : Progressions, student_understanding : Understandings,
     emotional_state : EmotionalStates, intent : Intents,
     solution_length : {0, 1}, error_types : ErrorTypeLists]

Call_determine_response_strategy ==
    /\ call.fn = "none"
    /\ call' = [call EXCEPT
                   !.fn = "determine_response_strategy",
                   !.result = determine_response_strategy(
                                  [teaching_progression |-> call.args.teaching_progression,
                                   student_understanding |-> call.args.student_understanding],
                                  [solution_length |-> call.args.solution_length,
                                   error_types |-> call.args.error_types],
                                  [emotional_state |-> call.args.emotional_state,
                                   intent |-> call.args.intent])]
    /\ UNCHANGED api_vars

InitStrategy ==
    /\ ApiIdle
    /\ \E a \in StrategyArgs :
           call = [fn |-> "none", initial |-> "", user_solution |-> << >>,
                   result |-> "", args |-> a]

NextStrategy == Call_determine_response_strategy

SpecStrategy == InitStrategy /\ [][NextStrategy]_vars

Approaches == << "supportive_simplification", "diagnostic_scaffolding", "initial_exploration",
                 "error_analysis", "solution_refinement", "adaptive_response" >>

\* the conditions of the five rules, in rule order
RuleHolds(r) ==
    IF r = 1 THEN call.args.emotional_state = "frustrated"
    ELSE IF r = 2 THEN call.args.intent = "seeking_help"
                       /\ call.args.student_understanding = "confused"
    ELSE IF r = 3 THEN call.args.teaching_progression = "diagnostic"
                       /\ call.args.solution_length = 0
    ELSE IF r = 4 THEN call.args.teaching_progression = "analytical"
                       /\ call.args.error_types /= << >>
    ELSE call.args.student_understanding = "understanding"
         /\ call.args.teaching_progression = "guidance"

\* C23: the selector returns one of the six approaches for every input: the
\* approach of the first rule, in the fixed order, whose condition holds, and
\* adaptive_response when none holds.
C23_FirstRuleWins ==
    call.fn = "determine_response_strategy" =>
        /\ \E a \in 1..Len(Approaches) : call.result = Approaches[a]
        /\ \A r \in 1..5 :
               (RuleHolds(r) /\ \A q \in 1..(r - 1) : ~RuleHolds(q)) =>
                   call.result = Approaches[r]
        /\ (\A r \in 1..5 : ~RuleHolds(r)) => call.result = Approaches[6]

\* a frustrated, confused student who asks for help: the first rule overrides
\* the second
C23_Witness ==
    /\ call.fn = "determine_response_strategy"
    /\ RuleHolds(1) /\ RuleHolds(2)
    /\ call.result = "supportive_simplification"

\* ----------------------------------------------------- tone of the chat reply
\* the chat reply of the request being served is a post-processed remote reply
RemoteReplyServed ==
    /\ Served("chat")
    /\ response.status = 200
    /\ Len(trail) >= 1
    /\ trail[1].fn = "generate_chat_response"
    /\ Len(trail[1].states) >= 3
    /\ trail[1].states[3] = "SUCCESS"

StartsWith(text, prefix) ==
    Len(text) >= Len(prefix) /\ SubSeq(text, 1, Len(prefix)) = prefix

HasWord(text, words) ==
    \E w \in words : \E i \in 1..Len(text) :
        i + Len(w) - 1 <= Len(text) /\ SubSeq(text, i, i + Len(w) - 1) = w

EmotionOfMessage == assess_emotional_state(lower(request.currentMessage))

\* C24: the post-processed reply to a message classified as frustrated starts
\* with the empathetic preface unless the reply has a supportive word already,
\* and the reply to one classified as confident starts with the affirming
\* preface unless it has an affirming word already.
C24_ToneMatchesEmotion ==
    RemoteReplyServed =>
        LET content == response.body[1].chatMessage.content
        IN /\ EmotionOfMessage = "frustrated" =>
                  \/ StartsWith(content, "I understand this can be challenging. ")
                  \/ HasWord(lower(content), {"understand", "okay", "let's", "together"})
           /\ EmotionOfMessage = "confident" =>
                  \/ StartsWith(content, "You're on the right track! ")
                  \/ HasWord(lower(content), {"great", "good", "excellent", "right"})

\* ------------------------------------------- the fallback responder's memory
\* a turn that mentions indentation and one that does not
BackTurns ==
    {[role |-> "tutor", content |-> "Mind the indent of that line."],
     [role |-> "student", content |-> "ok then"]}

BackMessages == {"which indent is right?", "what comes next?"}

\* the transcript of the next request has one more turn
AppendBack(turn) ==
    /\ Len(request.chatHistory) < MaxBack
    /\ request' = [request EXCEPT !.chatHistory = Append(@, turn), !.currentMessage = ""]
    /\ call' = NoCall
    /\ UNCHANGED << problems, file_exists, workers, store_readable, api_key, pc, response,
                    chat_response_content, traditional_feedback, remote_calls, trail,
                    comparator_calls >>

\* generate_chat_response without a credential: the fallback responder answers
Call_generate_chat_fallback_enhanced(current_message, user_solution) ==
    /\ call.fn = "none"
    /\ \E reply \in generate_chat_fallback_enhanced(current_message, user_solution,
                                                    request.chatHistory) :
           call' = [call EXCEPT !.fn = "generate_chat_fallback_enhanced",
                                !.user_solution = user_solution,
                                !.result = reply]
    /\ request' = [request EXCEPT !.currentMessage = current_message]
    /\ UNCHANGED << problems, file_exists, workers, store_readable, api_key, pc, response,
                    chat_response_content, traditional_feedback, remote_calls, trail,
                    comparator_calls >>

InitBack == ApiIdle /\ call = NoCall

NextBack ==
    \/ \E turn \in BackTurns : AppendBack(turn)
    \/ \E m \in BackMessages, u \in TalkSolutions : Call_generate_chat_fallback_enhanced(m, u)

SpecBack == InitBack /\ [][NextBack]_vars

MentionsIndentation(text) == HasWord(lower(text), {"indent"})

\* C25: when the current message mentions indentation, the fallback reply is
\* the "we've talked about indentation before" variant if some turn of the
\* transcript mentions indentation, wherever it is, and the first-time
\* explanation if none does.
C25_RemembersIndentation ==
    (call.fn = "generate_chat_fallback_enhanced" /\ MentionsIndentation(request.currentMessage)) =>
        IF \E i \in 1..Len(request.chatHistory) :
               MentionsIndentation(request.chatHistory[i].content)
        THEN StartsWith(call.result, "We've talked about indentation before.")
        ELSE StartsWith(call.result, "Indentation in Python is like organizing your thoughts")

\* ------------------------------------------------ agreement of the validators
Verdicts(initial, user_solution) ==
    {validate_solution(initial, user_solution).isCorrect,
     fallback_validation(initial, user_solution).isCorrect,
     basic_validation(initial, user_solution).isCorrect}

\* C28: for every problem blob and every submission, validate_solution,
\* _fallback_validation and _basic_validation return the same isCorrect: the
\* verdict any one of them returned is the only verdict the three give.
C28_ValidatorsAgree ==
    IsVerdictCall => Verdicts(call.initial, call.user_solution) = {call.result.isCorrect}

\* a validator accepted a two-line submission that is not the canonical lines
\* as written (indentation or a blank line differs)
C28_Witness ==
    /\ call.fn = "_fallback_validation"
    /\ call.result.isCorrect
    /\ Len(clean_user_solution(call.user_solution)) = 2
    /\ call.user_solution /= extract_correct_lines(call.initial)

\* --------------------------------- the two verdicts of one chat response
StartsWithAny(text, prefixes) == \E prefix \in prefixes : StartsWith(text, prefix)

\* the feedback points at one line of the submission
PointsAtLine(feedback) ==
    StartsWithAny(feedback, {"I'm looking at the very first line of your solution.",
                             "Take a look at line ",
                             "Consider line ",
                             "I'm noticing an issue around line "})

\* the feedback tells the learner that something is wrong
TellsFault(feedback) ==
    \/ PointsAtLine(feedback)
    \/ StartsWithAny(feedback, {"I notice your solution has a different number of lines",
                                "I see some issues with your solution."})

\* C30: with no credential configured, a chat response whose
\* solutionValidation.isCorrect is true carries no traditionalFeedback that
\* reports a wrong line, a wrong line count or issues, and one whose
\* traditionalFeedback points at a faulty line has isCorrect false.
C30_VerdictsNeverContradict ==
    (Served("chat") /\ response.status = 200 /\ ~api_key
         /\ Len(response.body[1].solutionValidation) = 1) =>
        LET feedback == response.body[1].traditionalFeedback[1]
            isCorrect == response.body[1].solutionValidation[1].isCorrect
        IN /\ isCorrect => ~TellsFault(feedback)
           /\ PointsAtLine(feedback) => ~isCorrect

====
